---- MODULE Spec2Model ----
(***************************************************************************)
(* Model of iSponsorBlockTV (Soheab fork): the LoungeAPI session           *)
(* (src/src/lounge.py), the per-device DeviceManager                       *)
(* (src/src/device_manager.py) and the task cache                          *)
(* (src/src/cache/sinbad_cache.py) used by ProcessSegments                 *)
(* (src/src/api_helper.py).                                                *)
(*                                                                         *)
(* asyncio is cooperative: one action of the model is the stretch of code  *)
(* a task runs between two suspension points (await).  task.cancel() only  *)
(* records a request; the task ends when it is next scheduled.             *)
(***************************************************************************)
EXTENDS Integers, Sequences, FiniteSets, TLC

\* ---------------------------------------------------------------- bounds
MaxSubs == 2        \* subscription/watchdog task pairs created in one run
MaxTime == 75       \* horizon of the session clock, seconds
MaxTasks == 3       \* command-issuing tasks alive at one time
MaxComps == 3       \* cached computations (tasks) created in one run
SegMaxSize == 1     \* capacity of the get_segments cache (maxsize, api_helper.py:58), scaled down
ShortStep == 2      \* seconds in a short step of the cache clock
MaxSteps == 2       \* steps of the cache clock, short or long (ttl - 1 seconds)
MaxRecs == 2        \* records in a provider response
MaxPos == 4         \* latest time in a record, half seconds
MaxMinLen == 2      \* largest minimum_skip_length, half seconds
MaxLag == 1         \* largest time since the update plus device offset, half seconds
MaxVideos == 2      \* video ids in nowPlaying events
LruMaxSize == 2     \* capacity of the LRU of the eviction-order check (maxsize, sinbad_cache.py:45)
MaxMade == 4        \* tasks created for that LRU

\* ------------------------------------------------------ program constants
WatchdogPoll == 10        \* lounge.py:116  await asyncio.sleep(10)
WatchdogThreshold == 60   \* lounge.py:121  time_since_last_event > 60
WatchdogGrace == 1        \* lounge.py:127  await asyncio.sleep(1)
\* time.time() (epoch seconds, lounge.py:180) minus loop.time() (monotonic
\* seconds, lounge.py:112/117): the two clocks the session mixes.
EpochOffset == 1700000000
Ttl == 300                \* api_helper.py:58  @lrutaskcache(ttl=300, maxsize=10)
WlMaxSize == 100          \* api_helper.py:48  @lrutaskcache(maxsize=100)
OneSecond == 2            \* api_helper.py:141  `< 1` second, in half seconds
LookBack == 4             \* device_manager.py:218  `position < 2` seconds, in half seconds

VARIABLES
    now,                      \* asyncio loop.time() of the session, seconds
    subs,                     \* subscription tasks: id -> [st, cancelReq]
    subscribe_task,           \* LoungeAPI.subscribe_task (0 = None)
    wds,                      \* watchdog tasks: id -> [st, cancelReq, wake]
    subscribe_task_watchdog,  \* LoungeAPI.subscribe_task_watchdog (0 = None)
    watchdog_running,         \* LoungeAPI.watchdog_running
    last_event_time,          \* LoungeAPI.last_event_time
    smPc,                     \* where the caller of subscribe_monitored is
    auth,                     \* [lounge_id_token, screen_id] being set; rejected: the
                              \* server answers 401 to the token
    connected,                \* YtLoungeApi.connected()
    cancelled,                \* DeviceManager.cancelled
    loopPc,                   \* where DeviceManager.loop is
    lastEventAt,              \* history: loop.time() of the last processed event or subscription start
    tasks,                    \* command-issuing tasks that are not done: slot -> record
    main_task,                \* DeviceManager.main_task (0 = None)
    locked,                   \* LoungeAPI._command_mutex._locked
    waiters,                  \* LoungeAPI._command_mutex._waiters, in order
    closePc,                  \* where DeviceManager.close is
    staleCancelled,           \* history: a superseded pending skip ended cancelled
    cnow,                     \* loop.time() seen by the task caches, seconds
    comps,                    \* tasks made by the cached functions, in order of creation
    segCache,                 \* LRU.cache of ProcessSegments.get_segments, in dict order
    wlCache,                  \* LRU.cache of ProcessSegments.is_whitelisted, in dict order
    timers,                   \* pending call_later(ttl, cache.remove, key) handles
    shared,                   \* history: a call received a task that was not done
    steps,                    \* history: steps taken by the cache clock
    response,                 \* response["segments"] given to process_segments, as received
    minimum_skip_length,      \* config.minimum_skip_length, half seconds
    segments,                 \* the segment list process_segments returned
    earlier,                    \* the segment list it returned for the response before
    mpc,                      \* "input", "done", or how the response was derived
    position,                 \* state.currentTime of the playback update, half seconds (-1: no update)
    elapsed,                  \* (time.time() - time_start) + device.offset at the call, half seconds
    skipCall,                 \* the call of DeviceManager.skip made by time_to_segment
    paused,                   \* LoungeAPI.paused
    current_video,            \* LoungeAPI.current_video: [video_id, state] (NoVideo = None)
    current_video_data,       \* LoungeAPI.current_video_data: the video it describes (0 = None)
    updating,                 \* an update_current_video_data task is pending
    lastCall,                  \* history: what the latest _process_event call did
    config,                   \* api_helper.config: [mute_ads, skip_ads, handle_shorts]
    volume_state,             \* LoungeAPI.volume_state: [volume, muted]
    shorts_disconnected,      \* LoungeAPI.shorts_disconnected
    issued,                   \* history: the commands the latest mute call passed to _command
    lru,                      \* an LRU of capacity LruMaxSize: its [key, task] items in dict order
    used,                     \* history: the keys the LRU was called with, least recent first
    made,                     \* number of tasks created for the LRU
    prefetch,                 \* the cached task of LoungeAPI.get_segments per video id: where it is
    fetchOf,                  \* per command task: [key, comp, end] (video id of its update, the
                              \* get_segments task it awaits, history: how its await ended)
    lastUpd                   \* history: the task of the most recent playback update (0 = none)

loungeVars == <<now, subs, subscribe_task, wds, subscribe_task_watchdog,
                watchdog_running, last_event_time, smPc, auth, connected,
                cancelled, loopPc, lastEventAt>>

cmdVars == <<tasks, main_task, locked, waiters, closePc, staleCancelled>>

cacheVars == <<cnow, comps, segCache, wlCache, timers, shared, steps>>

mergeVars == <<response, minimum_skip_length, segments, earlier, mpc>>

skipVars == <<position, elapsed, skipCall>>

lruVars == <<lru, used, made>>

linkVars == <<prefetch, fetchOf, lastUpd>>

mirrorVars == <<volume_state, shorts_disconnected, issued>>

eventVars == <<paused, current_video, current_video_data, updating, lastCall, config,
               mirrorVars>>

vars == <<loungeVars, cmdVars, cacheVars, mergeVars, skipVars, eventVars, lruVars, linkVars>>

notLounge == <<cmdVars, cacheVars, mergeVars, skipVars, eventVars, lruVars, linkVars>>
notCmd == <<loungeVars, cacheVars, mergeVars, skipVars, eventVars, lruVars, linkVars>>
notCache == <<loungeVars, cmdVars, mergeVars, skipVars, eventVars, lruVars, linkVars>>
notMerge == <<loungeVars, cmdVars, cacheVars, eventVars, lruVars, linkVars>>

SubIds == 1..MaxSubs

\* `by` records who asked first for the cancellation of the task.
NoTask == [st |-> "none", cancelReq |-> FALSE, by |-> "nobody"]
NoWd == [st |-> "none", cancelReq |-> FALSE, wake |-> 0]

\* asyncio.Task.done()
SubDone(s) == subs[s].st \in {"done_ok", "done_err", "done_cancelled"}
SubActive(s) == subs[s].st = "running"
WdDone(w) == wds[w].st = "done"
WdActive(w) == wds[w].st \in {"new", "sleep10", "sleep1"}

NumCreated == Cardinality({s \in SubIds : subs[s].st # "none"})

linked == auth.lounge_id_token /\ auth.screen_id

LoungeInit ==
    /\ now = 0
    /\ subs = [s \in SubIds |-> NoTask]
    /\ subscribe_task = 0
    /\ wds = [w \in SubIds |-> NoWd]
    /\ subscribe_task_watchdog = 0
    /\ watchdog_running = FALSE
    /\ last_event_time = 0
    /\ smPc = "idle"
    /\ auth = [lounge_id_token |-> TRUE, screen_id |-> TRUE, rejected |-> FALSE]
    /\ connected = FALSE
    /\ cancelled = FALSE
    /\ loopPc = "top"
    /\ lastEventAt = 0

\* A cancel that never reaches the subscription task.
CancelSubTaskIgnored(f, s, who) == f

\* asyncio.Task.cancel(): a no-op on a finished task, a request otherwise.
CancelSubTask(f, s, who) ==
    IF s # 0 /\ f[s].st = "running" /\ ~f[s].cancelReq
    THEN [f EXCEPT ![s].cancelReq = TRUE, ![s].by = who] ELSE f

CancelWdTask(f, w) ==
    IF w # 0 /\ f[w].st \in {"new", "sleep10", "sleep1"}
    THEN [f EXCEPT ![w].cancelReq = TRUE] ELSE f

\* lounge.py:156-158: create the subscription task and its watchdog, return.
CreateTasks ==
    /\ NumCreated < MaxSubs
    /\ LET id == NumCreated + 1 IN
        /\ subs' = [subs EXCEPT ![id] = [st |-> "running", cancelReq |-> FALSE, by |-> "nobody"]]
        /\ wds' = [wds EXCEPT ![id] = [st |-> "new", cancelReq |-> FALSE, wake |-> 0]]
        /\ subscribe_task' = id
        /\ subscribe_task_watchdog' = id
    /\ lastEventAt' = now
    /\ smPc' = "idle"

\* The deprecated variant (src/src/deprecated/ytlounge.py:323-338) creates the
\* new subscription without cancelling or awaiting the earlier one.
SubPartNoCancel == CreateTasks

\* lounge.py:148-158: cancel a earlier subscription that is not done and await
\* it; otherwise go on to create the new tasks.
SubPart ==
    IF subscribe_task # 0 /\ ~SubDone(subscribe_task)
    THEN /\ subs' = CancelSubTask(subs, subscribe_task, "subscribe_monitored")
         /\ smPc' = "await_sub"
         /\ UNCHANGED <<wds, subscribe_task, subscribe_task_watchdog, lastEventAt>>
    ELSE CreateTasks

\* lounge.py:136-146: entry of subscribe_monitored up to its first await.
SM_Enter ==
    /\ smPc = "idle"
    /\ IF subscribe_task_watchdog # 0 /\ ~WdDone(subscribe_task_watchdog)
       THEN /\ watchdog_running' = FALSE
            /\ wds' = CancelWdTask(wds, subscribe_task_watchdog)
            /\ smPc' = "await_wd"
            /\ UNCHANGED <<subs, subscribe_task, subscribe_task_watchdog, lastEventAt>>
       ELSE /\ SubPart
            /\ UNCHANGED watchdog_running
    /\ UNCHANGED <<now, last_event_time, auth, connected, cancelled>>
    /\ UNCHANGED notLounge

\* lounge.py:143-146: `await self.subscribe_task_watchdog` returns.
SM_AfterWd ==
    /\ smPc = "await_wd"
    /\ WdDone(subscribe_task_watchdog)
    /\ SubPart
    /\ UNCHANGED <<now, watchdog_running, last_event_time, auth, connected,
                   cancelled, loopPc>>
    /\ UNCHANGED notLounge

\* lounge.py:151-158: `await self.subscribe_task` returns; the tasks are created.
SM_AfterSub ==
    /\ smPc = "await_sub"
    /\ SubDone(subscribe_task)
    /\ CreateTasks
    /\ UNCHANGED <<now, watchdog_running, last_event_time, auth, connected,
                   cancelled, loopPc>>
    /\ UNCHANGED notLounge

\* `while self.watchdog_running: await asyncio.sleep(10)` (lounge.py:115-116):
\* the next state of watchdog w when it reaches the loop test with flag `run`.
WdLoopTest(w, run) ==
    IF run THEN [wds[w] EXCEPT !.st = "sleep10", !.wake = now + WatchdogPoll]
    ELSE [wds[w] EXCEPT !.st = "done"]

\* lounge.py:110-116: first run of the watchdog task.  A task cancelled before
\* its first run never executes its body.
WdStart(w) ==
    /\ wds[w].st = "new"
    /\ IF wds[w].cancelReq
       THEN /\ wds' = [wds EXCEPT ![w].st = "done"]
            /\ UNCHANGED <<watchdog_running, last_event_time>>
       ELSE /\ watchdog_running' = TRUE
            /\ last_event_time' = now
            /\ wds' = [wds EXCEPT ![w] = WdLoopTest(w, TRUE)]
    /\ UNCHANGED <<now, subs, subscribe_task, subscribe_task_watchdog, smPc, auth,
                   connected, cancelled, loopPc, lastEventAt>>
    /\ UNCHANGED notLounge

\* A watchdog that takes every poll for a stale one.
StaleAlways(time_since_last_event) == TRUE

\* lounge.py:121: if time_since_last_event > 60
Stale(time_since_last_event) == time_since_last_event > WatchdogThreshold

\* lounge.py:117-127: the watchdog wakes from its 10 s sleep and tests staleness.
WdPoll(w) ==
    /\ wds[w].st = "sleep10"
    /\ ~wds[w].cancelReq
    /\ now >= wds[w].wake
    /\ LET time_since_last_event == now - last_event_time IN
       IF /\ Stale(time_since_last_event)
          /\ subscribe_task # 0
          /\ ~SubDone(subscribe_task)
       THEN /\ subs' = CancelSubTask(subs, subscribe_task, "watchdog")
            /\ wds' = [wds EXCEPT ![w].st = "sleep1", ![w].wake = now + WatchdogGrace]
       ELSE /\ wds' = [wds EXCEPT ![w] = WdLoopTest(w, watchdog_running)]
            /\ UNCHANGED subs
    /\ UNCHANGED <<now, subscribe_task, subscribe_task_watchdog, watchdog_running,
                   last_event_time, smPc, auth, connected, cancelled, loopPc,
                   lastEventAt>>
    /\ UNCHANGED notLounge

\* lounge.py:127 then 115: back from the 1 s sleep to the loop test.
WdGraceOver(w) ==
    /\ wds[w].st = "sleep1"
    /\ ~wds[w].cancelReq
    /\ now >= wds[w].wake
    /\ wds' = [wds EXCEPT ![w] = WdLoopTest(w, watchdog_running)]
    /\ UNCHANGED <<now, subs, subscribe_task, subscribe_task_watchdog,
                   watchdog_running, last_event_time, smPc, auth, connected,
                   cancelled, loopPc, lastEventAt>>
    /\ UNCHANGED notLounge

\* lounge.py:128-130: CancelledError raised inside one of the sleeps.
WdCancelled(w) ==
    /\ wds[w].st \in {"sleep10", "sleep1"}
    /\ wds[w].cancelReq
    /\ watchdog_running' = FALSE
    /\ wds' = [wds EXCEPT ![w].st = "done"]
    /\ UNCHANGED <<now, subs, subscribe_task, subscribe_task_watchdog,
                   last_event_time, smPc, auth, connected, cancelled, loopPc,
                   lastEventAt>>
    /\ UNCHANGED notLounge

\* The long poll of YtLoungeApi.subscribe (task created at lounge.py:156)
\* re-raises CancelledError: a cancelled subscription ends as cancelled.
SubCancelled(s) ==
    /\ subs[s].st = "running"
    /\ subs[s].cancelReq
    /\ subs' = [subs EXCEPT ![s].st = "done_cancelled"]
    /\ UNCHANGED <<now, subscribe_task, wds, subscribe_task_watchdog,
                   watchdog_running, last_event_time, smPc, auth, connected,
                   cancelled, loopPc, lastEventAt>>
    /\ UNCHANGED notLounge

\* The long poll ends by itself: normally (the server closed the stream) or
\* with an exception (not connected, transport error).
SubEnds(s) ==
    /\ subs[s].st = "running"
    /\ ~subs[s].cancelReq
    /\ \E outcome \in {"done_ok", "done_err"} :
         subs' = [subs EXCEPT ![s].st = outcome]
    /\ \E c \in {connected, FALSE} : connected' = c
    /\ UNCHANGED <<now, subscribe_task, wds, subscribe_task_watchdog,
                   watchdog_running, last_event_time, smPc, auth, cancelled,
                   loopPc, lastEventAt>>
    /\ UNCHANGED notLounge

\* lounge.py:177-180: every event read by a running subscription stamps
\* last_event_time with time.time().
ProcessEvent ==
    /\ \E s \in SubIds : subs[s].st = "running" /\ ~subs[s].cancelReq
    /\ last_event_time' = now + EpochOffset
    /\ lastEventAt' = now
    /\ UNCHANGED <<now, subs, subscribe_task, wds, subscribe_task_watchdog,
                   watchdog_running, smPc, auth, connected, cancelled, loopPc>>
    /\ UNCHANGED notLounge

Sleeping == {w \in SubIds : wds[w].st \in {"sleep10", "sleep1"} /\ ~wds[w].cancelReq}

\* The next instant at which something is due: the earliest end of a watchdog
\* sleep, or one poll period later when no watchdog sleeps.
NextInstant ==
    IF Sleeping = {} THEN now + WatchdogPoll
    ELSE LET w == CHOOSE x \in Sleeping : \A y \in Sleeping : wds[x].wake <= wds[y].wake
         IN wds[w].wake

\* Time passes up to the next instant.  A newly created or cancelled task runs
\* before any time passes.
Tick ==
    /\ NextInstant > now
    /\ NextInstant <= MaxTime
    /\ \A w \in SubIds : wds[w].st # "new"
    /\ now' = NextInstant
    /\ UNCHANGED <<subs, subscribe_task, wds, subscribe_task_watchdog,
                   watchdog_running, last_event_time, smPc, auth, connected,
                   cancelled, loopPc, lastEventAt>>
    /\ UNCHANGED notLounge

\* ------------------------------------------------- commands and skips

\* Slots for the command-issuing tasks that are not done; a slot is free again
\* once its task is done, so MaxTasks bounds the tasks alive at one time.
TaskIds == 1..MaxTasks

\* main_task refers to a task that is done (still not None).
DoneTask == -1

\* `stale` records that a newer playback update arrived while the skip was
\* pending; hasVideo and playing are the fields of the update the task reads.
NoCmdTask == [kind |-> "none", pc |-> "none", cancelReq |-> FALSE, stale |-> FALSE,
              hasVideo |-> FALSE, playing |-> FALSE]

\* A command task that awaits no get_segments task.
NoFetch == [key |-> 0, comp |-> 0, end |-> "none"]

FreeSlots == {t \in TaskIds : tasks[t].kind = "none"}

NewSlot == CHOOSE t \in FreeSlots : \A u \in FreeSlots : t <= u

\* The phases in which a skip is still pending: not yet run, fetching segments,
\* sleeping until the segment, reporting viewed ids, waiting for the mutex.
PendingPcs == {"start", "fetch", "sleep", "mark", "lock_wait"}

InFlight == {t \in TaskIds : tasks[t].pc = "sending"}

CmdInit ==
    /\ tasks = [t \in TaskIds |-> NoCmdTask]
    /\ main_task = 0
    /\ locked = FALSE
    /\ waiters = <<>>
    /\ closePc = "idle"
    /\ staleCancelled = FALSE

\* asyncio.Lock._wake_up_first: only the head waiter is looked at.
WakeUpFirst(ws) ==
    IF ws # <<>> /\ ws[1].st = "pending"
    THEN [ws EXCEPT ![1].st = "woken"]
    ELSE ws

RemoveWaiter(ws, t) == SelectSeq(ws, LAMBDA w : w.t # t)

\* A __call__ that does not cancel the earlier main task.
CancelTaskKept(ts, t) == ts

\* asyncio.Task.cancel() on a command-issuing task: a no-op when it is done.
CancelTask(ts, t) ==
    IF t \in TaskIds /\ ts[t].kind # "none"
    THEN [ts EXCEPT ![t].cancelReq = TRUE]
    ELSE ts

\* Task.cancel() cancels the future the task waits on: its mutex waiter, when
\* that is still pending.
CancelWaiter(ws, t) ==
    [i \in 1..Len(ws) |->
        IF ws[i].t = t /\ ws[i].st = "pending"
        THEN [ws[i] EXCEPT !.st = "cancelled"] ELSE ws[i]]

\* The task in slot t is done: the slot is free again.
Finish(ts, t) == [ts EXCEPT ![t] = NoCmdTask]

MainAfter(t) == IF main_task = t THEN DoneTask ELSE main_task

\* asyncio.Lock.acquire as entered by `async with self._command_mutex`
\* (lounge.py:242): taken at once when free and nobody is queued, else queued.
Acquire(ts, t) ==
    IF ~locked /\ \A i \in 1..Len(waiters) : waiters[i].st = "cancelled"
    THEN /\ locked' = TRUE
         /\ waiters' = waiters
         /\ tasks' = [ts EXCEPT ![t].pc = "sending"]
    ELSE /\ locked' = locked
         /\ waiters' = Append(waiters, [t |-> t, st |-> "pending"])
         /\ tasks' = [ts EXCEPT ![t].pc = "lock_wait"]

\* device_manager.py:103-113: DeviceManager.__call__ on a playback update.
\* The update carries a video id or not and is Playing or not.
Call(hasVideo, playing) ==
    /\ FreeSlots # {}
    /\ LET id == NewSlot
           prior == IF main_task \in TaskIds /\ tasks[main_task].pc \in PendingPcs
                    THEN [tasks EXCEPT ![main_task].stale = TRUE] ELSE tasks IN
        /\ tasks' = [CancelTask(prior, main_task) EXCEPT ![id] =
                        [kind |-> "skip", pc |-> "start", cancelReq |-> FALSE,
                         stale |-> FALSE, hasVideo |-> hasVideo, playing |-> playing]]
        /\ waiters' = CancelWaiter(waiters, main_task)
        /\ main_task' = id
    /\ UNCHANGED <<locked, closePc, staleCancelled>>
    /\ UNCHANGED notCmd

\* device_manager.py:197-200: first run of process_playstatus.  A task
\* cancelled before its first run never executes its body.
SkipStart(t) ==
    /\ tasks[t].kind = "skip"
    /\ tasks[t].pc = "start"
    /\ IF tasks[t].cancelReq \/ ~tasks[t].hasVideo
       THEN /\ tasks' = Finish(tasks, t)
            /\ main_task' = MainAfter(t)
            /\ staleCancelled' = (staleCancelled \/ tasks[t].stale)
       ELSE /\ tasks' = [tasks EXCEPT ![t].pc = "fetch"]
            /\ UNCHANGED <<main_task, staleCancelled>>
    /\ UNCHANGED <<locked, waiters, closePc>>
    /\ UNCHANGED notCmd

\* A process_playstatus that goes on to time_to_segment whatever the state of
\* the update.
ArmsSkipAlways(res, playing) == res = "segment"

\* device_manager.py:203, 207, 236: the update is Playing, there are
\* segments, and time_to_segment finds a next one.
ArmsSkip(res, playing) == res = "segment" /\ playing

\* device_manager.py:200-237: get_segments returns (or raises); the update is
\* Playing and time_to_segment finds a next segment, or there is nothing to do.
\* skip() then starts its asyncio.sleep (device_manager.py:242).
SkipFetched(t) ==
    /\ tasks[t].pc = "fetch"
    /\ ~tasks[t].cancelReq
    /\ \E res \in {"segment", "nothing", "error"} :
         IF ArmsSkip(res, tasks[t].playing)
         THEN /\ tasks' = [tasks EXCEPT ![t].pc = "sleep"]
              /\ UNCHANGED main_task
         ELSE /\ tasks' = Finish(tasks, t)
              /\ main_task' = MainAfter(t)
    /\ UNCHANGED <<locked, waiters, closePc, staleCancelled>>
    /\ UNCHANGED notCmd

\* device_manager.py:243-245: the sleep is over; mark_viewed_segments returns
\* at once when skip_count_tracking is off (api_helper.py:368-369), else the
\* report is awaited; then seek_to enters _command.
SkipSlept(t) ==
    /\ tasks[t].pc = "sleep"
    /\ ~tasks[t].cancelReq
    /\ \E skip_count_tracking \in BOOLEAN :
         IF skip_count_tracking
         THEN /\ tasks' = [tasks EXCEPT ![t].pc = "mark"]
              /\ UNCHANGED <<locked, waiters>>
         ELSE Acquire(tasks, t)
    /\ UNCHANGED <<main_task, closePc, staleCancelled>>
    /\ UNCHANGED notCmd

\* api_helper.py:372-373 then device_manager.py:245: the report is done (or
\* raised, which ends the task); seek_to enters _command.
SkipMarked(t) ==
    /\ tasks[t].pc = "mark"
    /\ ~tasks[t].cancelReq
    /\ \E ok \in BOOLEAN :
         IF ok THEN Acquire(tasks, t) /\ UNCHANGED main_task
         ELSE /\ tasks' = Finish(tasks, t)
              /\ main_task' = MainAfter(t)
              /\ UNCHANGED <<locked, waiters>>
    /\ UNCHANGED <<closePc, staleCancelled>>
    /\ UNCHANGED notCmd

\* CancelledError raised at the await of the fetch, the sleep or the report.
SkipCancelled(t) ==
    /\ tasks[t].pc \in {"fetch", "sleep", "mark"}
    /\ tasks[t].cancelReq
    /\ tasks' = Finish(tasks, t)
    /\ main_task' = MainAfter(t)
    /\ staleCancelled' = (staleCancelled \/ tasks[t].stale)
    /\ UNCHANGED <<locked, waiters, closePc>>
    /\ UNCHANGED notCmd

\* A command task enters _command (lounge.py:241-242): set_volume and mute
\* (lounge.py:220-231), play_video (lounge.py:233-234), get_now_playing, and
\* seek_to, skip_ad, set_auto_play_mode inherited from YtLoungeApi, as issued
\* by an event handler or the frontend.
IssueCommand ==
    /\ FreeSlots # {}
    /\ LET id == NewSlot IN
         Acquire([tasks EXCEPT ![id] = [NoCmdTask EXCEPT !.kind = "cmd"]], id)
    /\ UNCHANGED <<main_task, closePc, staleCancelled>>
    /\ UNCHANGED notCmd

\* asyncio.Lock.acquire, woken waiter: leaves the queue and takes the lock;
\* super()._command starts (lounge.py:243).
WaiterAcquires(t) ==
    /\ tasks[t].pc = "lock_wait"
    /\ ~tasks[t].cancelReq
    /\ \E i \in 1..Len(waiters) : waiters[i].t = t /\ waiters[i].st = "woken"
    /\ waiters' = RemoveWaiter(waiters, t)
    /\ locked' = TRUE
    /\ tasks' = [tasks EXCEPT ![t].pc = "sending"]
    /\ UNCHANGED <<main_task, closePc, staleCancelled>>
    /\ UNCHANGED notCmd

\* asyncio.Lock.acquire, cancelled waiter: leaves the queue, passes the wake-up
\* on when the lock is free, and re-raises CancelledError.
WaiterCancelled(t) ==
    /\ tasks[t].pc = "lock_wait"
    /\ tasks[t].cancelReq
    /\ LET rest == RemoveWaiter(waiters, t) IN
         waiters' = IF ~locked THEN WakeUpFirst(rest) ELSE rest
    /\ tasks' = Finish(tasks, t)
    /\ main_task' = MainAfter(t)
    /\ staleCancelled' = (staleCancelled \/ tasks[t].stale)
    /\ UNCHANGED <<locked, closePc>>
    /\ UNCHANGED notCmd

\* An exit from _command that leaves the mutex as it is.
ReleaseSkipped(l) == l

\* asyncio.Lock.release, called by __aexit__ of `async with
\* self._command_mutex` (lounge.py:242) on every exit from the block.
Release(l) == FALSE

\* End of `async with self._command_mutex` (lounge.py:242-243): the send
\* returned, raised or was cancelled.  asyncio.Lock.release raises
\* RuntimeError when the lock is not held; the task is done either way.
SendEnds(t) ==
    /\ tasks[t].pc = "sending"
    /\ IF locked
       THEN /\ locked' = Release(locked)
            /\ waiters' = WakeUpFirst(waiters)
       ELSE UNCHANGED <<locked, waiters>>
    /\ tasks' = Finish(tasks, t)
    /\ main_task' = MainAfter(t)
    /\ UNCHANGED <<closePc, staleCancelled>>
    /\ UNCHANGED notCmd

\* self.current_video = None (lounge.py:82, 270)
NoVideo == [video_id |-> 0, state |-> "none"]

\* lounge.py:258-271: the body of LoungeAPI.close, with the command tasks ts
\* and the mutex queue ws as they are when it runs.
CloseEffects(ts, ws) ==
    /\ subs' = CancelSubTask(subs, subscribe_task, "close")
    /\ wds' = CancelWdTask(wds, subscribe_task_watchdog)
    /\ tasks' = ts
    /\ locked' = FALSE
    /\ waiters' = IF locked THEN WakeUpFirst(ws) ELSE ws
    /\ connected' = FALSE
    /\ auth' = [lounge_id_token |-> FALSE, screen_id |-> FALSE, rejected |-> FALSE]
    /\ current_video' = NoVideo
    /\ UNCHANGED <<now, subscribe_task, subscribe_task_watchdog, watchdog_running,
                   last_event_time, smPc, loopPc, lastEventAt,
                   main_task, staleCancelled>>
    /\ UNCHANGED <<paused, current_video_data, updating, lastCall, config, mirrorVars>>

\* LoungeAPI.close called on its own (main.py:179).
LoungeClose ==
    /\ CloseEffects(tasks, waiters)
    /\ UNCHANGED <<cancelled, closePc>>
    /\ UNCHANGED <<cacheVars, mergeVars, skipVars, lruVars, linkVars>>

\* device_manager.py:247-251: DeviceManager.close up to its sleep; without a
\* main task it goes straight on to controller.close() (line 256).
DMCloseBegin ==
    /\ closePc = "idle"
    /\ cancelled' = TRUE
    /\ IF main_task # 0
       THEN /\ closePc' = "sleep"
            /\ UNCHANGED <<now, subs, subscribe_task, wds, subscribe_task_watchdog,
                           watchdog_running, last_event_time, smPc, auth, connected,
                           loopPc, lastEventAt, tasks, main_task,
                           locked, waiters, staleCancelled>>
            /\ UNCHANGED eventVars
       ELSE /\ closePc' = "idle"
            /\ CloseEffects(tasks, waiters)
    /\ UNCHANGED <<cacheVars, mergeVars, skipVars, lruVars, linkVars>>

\* device_manager.py:252-256: cancel the main task, then controller.close().
DMCloseFinish ==
    /\ closePc = "sleep"
    /\ closePc' = "idle"
    /\ CloseEffects(CancelTask(tasks, main_task), CancelWaiter(waiters, main_task))
    /\ UNCHANGED cancelled
    /\ UNCHANGED <<cacheVars, mergeVars, skipVars, lruVars, linkVars>>

\* -------------------------------------------------- DeviceManager.loop

\* device_manager.py:128, 142: `while not self.cancelled`, then the first
\* test of `while not lounge_controller.linked()`, with no await between.
LoopTop ==
    /\ loopPc = "top"
    /\ loopPc' = IF cancelled THEN "exited" ELSE IF linked THEN "avail" ELSE "auth"
    /\ UNCHANGED <<now, subs, subscribe_task, wds, subscribe_task_watchdog,
                   watchdog_running, last_event_time, smPc, auth, connected,
                   cancelled, lastEventAt>>
    /\ UNCHANGED notLounge

\* device_manager.py:142-149: refresh the auth until linked; refresh_auth
\* needs the screen id and may fail.
LoopAuth ==
    /\ loopPc = "auth"
    /\ IF linked
       THEN /\ loopPc' = "avail"
            /\ UNCHANGED auth
       ELSE /\ loopPc' = "auth"
            /\ \E ok \in BOOLEAN :
                 auth' = IF ok /\ auth.screen_id
                         THEN [auth EXCEPT !.lounge_id_token = TRUE, !.rejected = FALSE]
                         ELSE auth
    /\ UNCHANGED <<now, subs, subscribe_task, wds, subscribe_task_watchdog,
                   watchdog_running, last_event_time, smPc, connected,
                   cancelled, lastEventAt>>
    /\ UNCHANGED notLounge

\* device_manager.py:151-152: poll until the device is available or closed.
LoopAvail ==
    /\ loopPc = "avail"
    /\ \E available \in BOOLEAN :
         loopPc' = IF available \/ cancelled THEN "connect" ELSE "avail"
    /\ UNCHANGED <<now, subs, subscribe_task, wds, subscribe_task_watchdog,
                   watchdog_running, last_event_time, smPc, auth, connected,
                   cancelled, lastEventAt>>
    /\ UNCHANGED notLounge

\* lounge.py:273-315 as called by the loop, which swallows what it raises:
\* NotLinkedException when not linked (lounge.py:275-276); False on status
\* 401, the token being left as it is (lounge.py:294-300); else the bind
\* succeeds or not.
Connect(ok) == IF linked /\ ~auth.rejected /\ ok THEN TRUE ELSE connected

\* device_manager.py:154-157: the first connect.
LoopConnect ==
    /\ loopPc = "connect"
    /\ \E ok \in BOOLEAN : connected' = Connect(ok)
    /\ loopPc' = "retry"
    /\ UNCHANGED <<now, subs, subscribe_task, wds, subscribe_task_watchdog,
                   watchdog_running, last_event_time, smPc, auth, cancelled,
                   lastEventAt>>
    /\ UNCHANGED notLounge

\* device_manager.py:158-165: retry the connect every 10 s until connected or
\* closed.
LoopRetry ==
    /\ loopPc = "retry"
    /\ IF connected \/ cancelled
       THEN /\ loopPc' = "subscribe"
            /\ UNCHANGED connected
       ELSE /\ loopPc' = "retry"
            /\ \E ok \in BOOLEAN : connected' = Connect(ok)
    /\ UNCHANGED <<now, subs, subscribe_task, wds, subscribe_task_watchdog,
                   watchdog_running, last_event_time, smPc, auth, cancelled,
                   lastEventAt>>
    /\ UNCHANGED notLounge

\* device_manager.py:174: the loop calls subscribe_monitored.
LoopSubscribe ==
    /\ loopPc = "subscribe"
    /\ SM_Enter
    /\ loopPc' = "in_sub"

\* A loop without the try block around `await sub`.
AfterAwaitUncaught(st) == IF st = "done_ok" THEN "top" ELSE "crashed"

\* device_manager.py:172-177: where the loop goes when `await sub` is over:
\* a return and an exception caught by `except Exception` lead to the next
\* iteration, CancelledError leaves loop().
AfterAwait(st) == IF st = "done_cancelled" THEN "crashed" ELSE "top"

\* device_manager.py:175-177: `await sub` returns or raises.  `except
\* Exception` does not catch asyncio.CancelledError (a BaseException): when the
\* subscription task was cancelled the error leaves loop() and ends its task.
LoopAwaitSub ==
    /\ loopPc = "in_sub"
    /\ smPc = "idle"
    /\ subscribe_task # 0
    /\ SubDone(subscribe_task)
    /\ loopPc' = AfterAwait(subs[subscribe_task].st)
    /\ UNCHANGED <<now, subs, subscribe_task, wds, subscribe_task_watchdog,
                   watchdog_running, last_event_time, smPc, auth, connected,
                   cancelled, lastEventAt>>
    /\ UNCHANGED notLounge

\* The lounge token expires: from now on the server answers 401 to it.
TokenExpires ==
    /\ linked
    /\ ~auth.rejected
    /\ auth' = [auth EXCEPT !.rejected = TRUE]
    /\ UNCHANGED <<now, subs, subscribe_task, wds, subscribe_task_watchdog,
                   watchdog_running, last_event_time, smPc, connected,
                   cancelled, loopPc, lastEventAt>>
    /\ UNCHANGED notLounge

\* device_manager.py:180-187: refresh_auth_loop wakes from its 24 h sleep
\* and calls refresh_auth, which needs the screen id and may fail.
RefreshAuthLoop ==
    /\ \E ok \in BOOLEAN :
         auth' = IF ok /\ auth.screen_id
                 THEN [auth EXCEPT !.lounge_id_token = TRUE, !.rejected = FALSE]
                 ELSE auth
    /\ UNCHANGED <<now, subs, subscribe_task, wds, subscribe_task_watchdog,
                   watchdog_running, last_event_time, smPc, connected,
                   cancelled, loopPc, lastEventAt>>
    /\ UNCHANGED notLounge

\* ------------------------------------------------------------ task caches

\* Video ids the cached functions are called with.  make_key(args, kwargs)
\* (sinbad_cache.py:148) of a call is determined by the video id, self being
\* the one ProcessSegments instance.  One more id than the segments cache holds.
Keys == 1..(SegMaxSize + 1)

CompIds == 1..Len(comps)

NoComp == 0

\* asyncio.Task.done()
CompDone(c) == comps[c].st \in {"done", "failed", "cancelled"}

\* LRU.cache (sinbad_cache.py:44) is a dict: here the sequence of its
\* [key, task] items in dict order.  TaskAt is cache.get(key), NoComp if absent.
TaskAt(cache, k) ==
    LET hits == {i \in 1..Len(cache) : cache[i].key = k} IN
        IF hits = {} THEN NoComp ELSE cache[CHOOSE i \in hits : TRUE].task

\* sinbad_cache.py:62-63: LRU.remove
LRURemove(cache, k) == SelectSeq(cache, LAMBDA e : e.key # k)

\* A hit that leaves the item where it is.
LRUGetItemInPlace(cache, k) == cache

\* sinbad_cache.py:53-55: LRU.__getitem__ moves the item to the end.
LRUGetItem(cache, k) ==
    Append(LRURemove(cache, k), [key |-> k, task |-> TaskAt(cache, k)])

\* sinbad_cache.py:58: dict assignment; an existing key keeps its place.
LRUPut(cache, k, v) ==
    IF TaskAt(cache, k) # NoComp
    THEN [i \in 1..Len(cache) |->
            IF cache[i].key = k THEN [key |-> k, task |-> v] ELSE cache[i]]
    ELSE Append(cache, [key |-> k, task |-> v])

\* sinbad_cache.py:57-60: LRU.__setitem__ pops the oldest item on overflow.
LRUSetItem(cache, k, v, maxsize) ==
    LET put == LRUPut(cache, k, v) IN
        IF Len(put) > maxsize THEN Tail(put) ELSE put

\* The tasks whose item LRU.__setitem__ pops (sinbad_cache.py:59-60).
Popped(cache, k, v, maxsize) ==
    LET put == LRUPut(cache, k, v) IN
        IF Len(put) > maxsize THEN {put[1].task} ELSE {}

\* A wrapped function that never finds a cached task.
CachedTaskNever(cache, k) == NoComp

\* sinbad_cache.py:149-151: `try: return internal_cache[key]`, NoComp on KeyError.
CachedTask(cache, k) == TaskAt(cache, k)

\* sinbad_cache.py:152: TaskWrapper(coro(*args, **kwargs)).  `born` is the
\* time of insertion into the segments cache, `left` how the task's item left
\* the cache ("no": it did not).
NewComp(fn, k) ==
    [fn |-> fn, key |-> k, st |-> "new", res |-> "none", cancelReq |-> FALSE,
     born |-> IF fn = "get_segments" THEN cnow ELSE 0,
     wl |-> NoComp, left |-> "no"]

MarkLeft(cs, ids, how) ==
    [i \in 1..Len(cs) |->
        IF i \in ids /\ cs[i].left = "no" THEN [cs[i] EXCEPT !.left = how] ELSE cs[i]]

\* A get_segments task is done: its done-callback _lru_evict runs
\* (sinbad_cache.py:108-122, added at 153-154 because ttl=300).  Cancelled:
\* cache.remove(key).  Result with result[1] true: cache.remove(key).  Result
\* with result[1] false: call_later(ttl, cache.remove, key).  Exception:
\* task.result() raises inside the callback, nothing else happens.
SegDone(cs, c, st, res) ==
    LET k == cs[c].key
        removes == st = "cancelled" \/ (st = "done" /\ res \in {"locked", "whitelisted"})
        gone == IF removes /\ TaskAt(segCache, k) # NoComp
                THEN {TaskAt(segCache, k)} ELSE {}
        fin == [cs EXCEPT ![c].st = st, ![c].res = res] IN
    /\ comps' = MarkLeft(fin, gone, "callback")
    /\ segCache' = IF removes THEN LRURemove(segCache, k) ELSE segCache
    /\ timers' = IF st = "done" /\ res = "expiring"
                 THEN timers \cup {[key |-> k, due |-> cnow + Ttl]}
                 ELSE timers

\* A get_segments that sends the provider request whatever is_whitelisted
\* returned.
SegAfterWlAlways(cs, c, w) ==
    /\ comps' = [cs EXCEPT ![c].st = "fetch", ![c].wl = w]
    /\ UNCHANGED <<segCache, timers>>

\* api_helper.py:60-61 onwards, once the is_whitelisted task w is done:
\* whitelisted returns ([], True), the result "whitelisted"; not whitelisted
\* goes on to the request (api_helper.py:72-74); an exception or
\* CancelledError of w is raised by the await into get_segments, which ends
\* the same way.
SegAfterWl(cs, c, w) ==
    IF cs[w].st = "done" /\ cs[w].res = "no"
    THEN /\ comps' = [cs EXCEPT ![c].st = "fetch", ![c].wl = w]
         /\ UNCHANGED <<segCache, timers>>
    ELSE IF cs[w].st = "done"
         THEN SegDone([cs EXCEPT ![c].wl = w], c, "done", "whitelisted")
         ELSE SegDone([cs EXCEPT ![c].wl = w], c, cs[w].st, "none")

\* The keys of the items of an LRU.
LRUKeys(cache) == {cache[i].key : i \in 1..Len(cache)}

\* sinbad_cache.py:147-152 on an LRU of capacity LruMaxSize, the wrapped
\* function called with key k: a hit is internal_cache[key] (LRU.__getitem__),
\* a miss creates a task and stores it (LRU.__setitem__).
LruCall(k) ==
    /\ IF TaskAt(lru, k) # NoComp
       THEN /\ lru' = LRUGetItem(lru, k)
            /\ UNCHANGED made
       ELSE /\ made < MaxMade
            /\ made' = made + 1
            /\ lru' = LRUSetItem(lru, k, made + 1, LruMaxSize)
    /\ used' = Append(SelectSeq(used, LAMBDA u : u # k), k)
    /\ UNCHANGED <<loungeVars, cmdVars, cacheVars, mergeVars, skipVars, eventVars, linkVars>>

\* sinbad_cache.py:62-63 as called by _lru_evict (110, 114) and by the
\* call_later handle (122): cache.remove(key).
LruRemove(k) ==
    /\ lru' = LRURemove(lru, k)
    /\ UNCHANGED <<used, made>>
    /\ UNCHANGED <<loungeVars, cmdVars, cacheVars, mergeVars, skipVars, eventVars, linkVars>>

\* ----------------------------------------- LoungeAPI.get_segments (prefetch)

\* The states in which the task of LoungeAPI.get_segments is done: it
\* returned [] for a whitelisted video, it raised AttributeError at
\* self.api_helper.segments_handler, or the channel lookup raised.
PrefetchEnded == {"whitelisted", "attr_error", "lookup_error"}

\* lounge.py:172-175 once is_whitelisted returned False: APIHelper has no
\* attribute segments_handler (api_helper.py:162-244), the expression raises
\* AttributeError.
AfterNotWhitelisted == "attr_error"

\* events_handlers.py:52-58: the autoplayUpNext handler.  Without data or
\* with an empty videoId it does nothing; else it calls get_segments(vid_id),
\* whose cache (lounge.py:164, keyed by the video id) makes a task for a new
\* id and returns the task it has for a known one; create_task returns a
\* task as it is (api_helper.py:238-239).
AutoplayUpNext(vid) ==
    /\ prefetch' = IF vid \in Keys /\ prefetch[vid] = "none"
                   THEN [prefetch EXCEPT ![vid] = "new"]
                   ELSE prefetch
    /\ UNCHANGED <<fetchOf, lastUpd>>
    /\ UNCHANGED <<loungeVars, cmdVars, cacheVars, mergeVars, skipVars, eventVars, lruVars>>

\* lounge.py:166: first run of LoungeAPI.get_segments: it awaits
\* api_helper.is_whitelisted (api_helper.py:274-282), which returns False at
\* once when no whitelist or api key is configured and else looks the channel
\* up.
PrefetchStart(k) ==
    /\ prefetch[k] = "new"
    /\ \E configured \in BOOLEAN :
         prefetch' = [prefetch EXCEPT
                         ![k] = IF configured THEN "wl_wait" ELSE AfterNotWhitelisted]
    /\ UNCHANGED <<fetchOf, lastUpd>>
    /\ UNCHANGED <<loungeVars, cmdVars, cacheVars, mergeVars, skipVars, eventVars, lruVars>>

\* lounge.py:166-175: the channel lookup is over.  Whitelisted: return [];
\* not whitelisted: lines 172-175; the lookup raised: so does get_segments.
PrefetchResume(k) ==
    /\ prefetch[k] = "wl_wait"
    /\ \E out \in {"yes", "no", "failed"} :
         prefetch' = [prefetch EXCEPT
                         ![k] = IF out = "yes" THEN "whitelisted"
                                ELSE IF out = "no" THEN AfterNotWhitelisted
                                ELSE "lookup_error"]
    /\ UNCHANGED <<fetchOf, lastUpd>>
    /\ UNCHANGED <<loungeVars, cmdVars, cacheVars, mergeVars, skipVars, eventVars, lruVars>>

\* Video ids are numbered in the order of their first request.
KnownKeys == {comps[c].key : c \in CompIds}

\* api_helper.py:362-363 -> sinbad_cache.py:147-155: a caller asks for the
\* segments of video k.
CallSegments(k) ==
    /\ \A j \in Keys : j < k => j \in KnownKeys
    /\ LET c == CachedTask(segCache, k) IN
         IF c # NoComp
         THEN /\ comps' = comps
              /\ segCache' = LRUGetItem(segCache, k)
              /\ shared' = (shared \/ ~CompDone(c))
         ELSE /\ Len(comps) < MaxComps
              /\ shared' = shared
              /\ LET id == Len(comps) + 1 IN
                   /\ segCache' = LRUSetItem(segCache, k, id, SegMaxSize)
                   /\ comps' = MarkLeft(Append(comps, NewComp("get_segments", k)),
                                        Popped(segCache, k, id, SegMaxSize), "lru")
    /\ UNCHANGED <<cnow, wlCache, timers, steps>>
    /\ UNCHANGED notCache

\* api_helper.py:60: first run of get_segments: it calls is_whitelisted
\* (sinbad_cache.py:147-155 on the other cache) and awaits the task; awaiting
\* a task that is done does not suspend.
SegStart(c) ==
    /\ c \in CompIds
    /\ comps[c].fn = "get_segments"
    /\ comps[c].st = "new"
    /\ ~comps[c].cancelReq
    /\ LET k == comps[c].key
           w == CachedTask(wlCache, k) IN
         IF w # NoComp
         THEN /\ wlCache' = LRUGetItem(wlCache, k)
              /\ IF CompDone(w)
                 THEN SegAfterWl(comps, c, w)
                 ELSE /\ comps' = [comps EXCEPT ![c].st = "wl_wait", ![c].wl = w]
                      /\ UNCHANGED <<segCache, timers>>
         ELSE /\ Len(comps) < MaxComps
              /\ LET id == Len(comps) + 1 IN
                   /\ wlCache' = LRUSetItem(wlCache, k, id, WlMaxSize)
                   /\ comps' = MarkLeft(
                         Append([comps EXCEPT ![c].st = "wl_wait", ![c].wl = id],
                                NewComp("is_whitelisted", k)),
                         Popped(wlCache, k, id, WlMaxSize), "lru")
              /\ UNCHANGED <<segCache, timers>>
    /\ UNCHANGED <<cnow, shared, steps>>
    /\ UNCHANGED notCache

\* api_helper.py:60: the awaited is_whitelisted task is done, get_segments
\* resumes.
SegResume(c) ==
    /\ c \in CompIds
    /\ comps[c].st = "wl_wait"
    /\ ~comps[c].cancelReq
    /\ CompDone(comps[c].wl)
    /\ SegAfterWl(comps, c, comps[c].wl)
    /\ UNCHANGED <<cnow, wlCache, shared, steps>>
    /\ UNCHANGED notCache

\* api_helper.py:72-90: the request returns.  Status other than 200 and no
\* segment for the video return ([], True); process_segments returns
\* (segments, ignore_ttl) (api_helper.py:92-159); the request, the JSON
\* decoding or process_segments may raise.
SegFetched(c) ==
    /\ c \in CompIds
    /\ comps[c].fn = "get_segments"
    /\ comps[c].st = "fetch"
    /\ ~comps[c].cancelReq
    /\ \E out \in {"expiring", "locked", "failed"} :
         IF out = "failed"
         THEN SegDone(comps, c, "failed", "none")
         ELSE SegDone(comps, c, "done", out)
    /\ UNCHANGED <<cnow, wlCache, shared, steps>>
    /\ UNCHANGED notCache

\* api_helper.py:49-54: first run of is_whitelisted: False at once when no
\* whitelist or api key is configured, else the channel lookup is awaited.
\* The cache has no ttl, so no done-callback is added (sinbad_cache.py:153).
WlStart(w) ==
    /\ w \in CompIds
    /\ comps[w].fn = "is_whitelisted"
    /\ comps[w].st = "new"
    /\ ~comps[w].cancelReq
    /\ \E configured \in BOOLEAN :
         comps' = IF configured
                  THEN [comps EXCEPT ![w].st = "fetch"]
                  ELSE [comps EXCEPT ![w].st = "done", ![w].res = "no"]
    /\ UNCHANGED <<cnow, segCache, wlCache, timers, shared, steps>>
    /\ UNCHANGED notCache

\* api_helper.py:54-55: the channel lookup returns or raises.
WlFetched(w) ==
    /\ w \in CompIds
    /\ comps[w].fn = "is_whitelisted"
    /\ comps[w].st = "fetch"
    /\ ~comps[w].cancelReq
    /\ \E out \in {"yes", "no", "failed"} :
         comps' = IF out = "failed"
                  THEN [comps EXCEPT ![w].st = "failed"]
                  ELSE [comps EXCEPT ![w].st = "done", ![w].res = out]
    /\ UNCHANGED <<cnow, segCache, wlCache, timers, shared, steps>>
    /\ UNCHANGED notCache

\* device_manager.py:106-109: the task awaiting get_segments
\* (device_manager.py:200) is cancelled.  Task.cancel() cancels the future
\* the task waits on, down the chain of awaited tasks: the innermost task
\* that is not done gets the request.
CancelAwaiter(c) ==
    /\ c \in CompIds
    /\ comps[c].fn = "get_segments"
    /\ ~CompDone(c)
    /\ ~comps[c].cancelReq
    /\ comps' = IF comps[c].st = "wl_wait" /\ ~CompDone(comps[c].wl)
                THEN [comps EXCEPT ![comps[c].wl].cancelReq = TRUE]
                ELSE [comps EXCEPT ![c].cancelReq = TRUE]
    /\ UNCHANGED <<cnow, segCache, wlCache, timers, shared, steps>>
    /\ UNCHANGED notCache

\* CancelledError is thrown into a task asked to cancel when it next runs.
CompCancelled(c) ==
    /\ c \in CompIds
    /\ ~CompDone(c)
    /\ comps[c].cancelReq
    /\ IF comps[c].fn = "get_segments"
       THEN SegDone(comps, c, "cancelled", "none")
       ELSE /\ comps' = [comps EXCEPT ![c].st = "cancelled"]
            /\ UNCHANGED <<segCache, timers>>
    /\ UNCHANGED <<cnow, wlCache, shared, steps>>
    /\ UNCHANGED notCache

\* sinbad_cache.py:122: a call_later(ttl, cache.remove, key) handle is due.
TimerFires(tm) ==
    /\ tm \in timers
    /\ tm.due <= cnow
    /\ LET gone == IF TaskAt(segCache, tm.key) # NoComp
                   THEN {TaskAt(segCache, tm.key)} ELSE {} IN
         comps' = MarkLeft(comps, gone, "ttl")
    /\ segCache' = LRURemove(segCache, tm.key)
    /\ timers' = timers \ {tm}
    /\ UNCHANGED <<cnow, wlCache, shared, steps>>
    /\ UNCHANGED notCache

\* The tasks the event loop has a step ready for: first run, delivery of a
\* CancelledError, resumption after the awaited task is done.
ReadyComps ==
    {c \in CompIds :
        /\ ~CompDone(c)
        /\ \/ comps[c].st = "new"
           \/ comps[c].cancelReq
           \/ comps[c].st = "wl_wait" /\ CompDone(comps[c].wl)}

\* Time passes: d seconds, or less when a timer handle is due sooner.  Ready
\* steps and due handles run before more time passes.  Steps are taken only
\* while something depends on the clock: a get_segments task that is not
\* done, a timer handle.
Advance(d) ==
    /\ ReadyComps = {}
    /\ timers # {} \/ \E c \in CompIds : comps[c].fn = "get_segments" /\ ~CompDone(c)
    /\ \A tm \in timers : tm.due > cnow
    /\ LET stops == {cnow + d} \cup {tm.due : tm \in timers} IN
         cnow' = CHOOSE t \in stops : \A u \in stops : t <= u
    /\ steps' = steps + 1
    /\ UNCHANGED <<comps, segCache, wlCache, timers, shared>>
    /\ UNCHANGED notCache

\* A short while passes, as during a request.
CacheTick ==
    /\ steps < MaxSteps
    /\ Advance(ShortStep)

\* One second less than the ttl passes.
CacheJump ==
    /\ steps < MaxSteps
    /\ Advance(Ttl - 1)

\* ------------------------------------------------------ process_segments

\* Times of the merge are counted in half seconds, so that gaps below one
\* second exist; every comparison of process_segments is between sums and
\* differences of times, which the unit does not change.

Min(a, b) == IF a <= b THEN a ELSE b
Max(a, b) == IF a >= b THEN a ELSE b

\* A provider record {"segment": [start, end], "UUID": u}; the UUID of the
\* i-th record of a response is i.  `lacks` names the key the record lacks:
\* "segment", "UUID", or "none" for a record with both.
Records(times) ==
    [i \in 1..Len(times) |-> [start |-> times[i][1], end |-> times[i][2], UUID |-> i,
                              lacks |-> "none"]]

\* The (start, end) pairs a record can hold, and the responses drawn from them.
Ranges == {p \in (0..MaxPos) \X (0..MaxPos) : p[1] < p[2]}

Responses == UNION {{Records(t) : t \in [1..n -> Ranges]} : n \in 0..MaxRecs}

\* list.sort(key=lambda x: x[f]) (api_helper.py:104, 119): a stable sort, here
\* by insertion of the last element behind the elements with a key not larger.
RECURSIVE SortBy(_, _)
SortBy(s, f) ==
    IF Len(s) <= 1 THEN s
    ELSE LET front == SortBy(SubSeq(s, 1, Len(s) - 1), f)
             last == s[Len(s)]
             n == Cardinality({i \in 1..Len(front) : front[i][f] <= last[f]}) IN
         SubSeq(front, 1, n) \o <<last>> \o SubSeq(front, n + 1, Len(front))

\* api_helper.py:107-116: for i in range(len), for j in range(i + 1, len):
\* extend the end of record i by a later record that starts no later than it ends.
RECURSIVE MergeEnds(_, _, _)
MergeEnds(s, i, j) ==
    IF i > Len(s) THEN s
    ELSE IF j > Len(s) THEN MergeEnds(s, i + 1, i + 2)
    ELSE MergeEnds(IF s[j].start <= s[i].end
                   THEN [s EXCEPT ![i].end = Max(s[i].end, s[j].end)]
                   ELSE s,
                   i, j + 1)

\* api_helper.py:122-131: for i in range(len - 1, -1, -1), for j in
\* range(i - 1, -1, -1): extend the start of record i by an earlier record
\* that ends no earlier than it starts.
RECURSIVE MergeStarts(_, _, _)
MergeStarts(s, i, j) ==
    IF i < 1 THEN s
    ELSE IF j < 1 THEN MergeStarts(s, i - 1, i - 2)
    ELSE MergeStarts(IF s[j].end >= s[i].start
                     THEN [s EXCEPT ![i].start = Min(s[i].start, s[j].start)]
                     ELSE s,
                     i, j - 1)

\* A loop body that appends every record, whatever its length.
EmitUnfiltered(out, segment, min_len) ==
    Append(out, [start |-> segment.start, end |-> segment.end,
                 UUID |-> <<segment.UUID>>])

\* api_helper.py:135-148, the body of `for segment in response_segments`:
\* segment_dict is built; when it starts less than a second after the end of
\* the last output segment, that segment takes its end and its UUID; then
\* segment_dict itself is appended when longer than minimum_skip_length.
Emit(out, segment, min_len) ==
    LET segment_dict == [start |-> segment.start, end |-> segment.end,
                         UUID |-> <<segment.UUID>>]
        n == Len(out)
        merged == IF n > 0 /\ segment_dict.start - out[n].end < OneSecond
                  THEN [out EXCEPT ![n].end = segment_dict.end,
                                   ![n].UUID = @ \o segment_dict.UUID]
                  ELSE out
        skip_lenght == segment_dict.end - segment_dict.start IN
    IF skip_lenght > min_len THEN Append(merged, segment_dict) ELSE merged

\* api_helper.py:133: the loop over the records.
RECURSIVE EmitAll(_, _, _, _)
EmitAll(s, i, out, min_len) ==
    IF i > Len(s) THEN out
    ELSE EmitAll(s, i + 1, Emit(out, s[i], min_len), min_len)

\* api_helper.py:92-159: process_segments(response, minimum_skip_length),
\* the list of segments it returns.  The whole body is one try block
\* (api_helper.py:98-157): x["segment"] of a record without that key raises
\* KeyError in the key function of the first sort (api_helper.py:104), before
\* any segment exists; segment["UUID"] of a record without that key raises
\* KeyError in the loop over the records (api_helper.py:138), and the
\* segments appended so far are returned.
process_segments(resp, min_len) ==
    IF \E i \in 1..Len(resp) : resp[i].lacks = "segment" THEN <<>>
    ELSE
    LET byEnd == MergeEnds(SortBy(resp, "end"), 1, 2)
        byStart == MergeStarts(SortBy(byEnd, "start"), Len(resp), Len(resp) - 1)
        raising == {i \in 1..Len(byStart) : byStart[i].lacks = "UUID"}
        reached == IF raising = {} THEN Len(byStart)
                   ELSE (CHOOSE i \in raising : \A o \in raising : i <= o) - 1 IN
    EmitAll(SubSeq(byStart, 1, reached), 1, <<>>, min_len)

\* The responses in which at most one record lacks a key.
RawResponses ==
    Responses \cup
    UNION {{[r EXCEPT ![i].lacks = l] : i \in 1..Len(r), l \in {"segment", "UUID"}} :
              r \in Responses}

\* The (start, end) pairs of a list of segments, in order.
Spans(segs) == [i \in 1..Len(segs) |-> <<segs[i].start, segs[i].end>>]

\* No response is being processed.
MergeIdle ==
    /\ response = <<>>
    /\ minimum_skip_length = 0
    /\ segments = <<>>
    /\ earlier = <<>>
    /\ mpc = "input"

\* A response with its records in some order and a configured
\* minimum_skip_length (config.py) are given.
MergeInit ==
    /\ response \in Responses
    /\ minimum_skip_length \in 0..MaxMinLen
    /\ segments = <<>>
    /\ earlier = <<>>
    /\ mpc = "input"

\* A response in which a record may lack a key, and a configured
\* minimum_skip_length, are given.
RawInit ==
    /\ response \in RawResponses
    /\ minimum_skip_length \in 0..MaxMinLen
    /\ segments = <<>>
    /\ earlier = <<>>
    /\ mpc = "input"

\* api_helper.py:90: process_segments is applied to the response.
Process ==
    /\ mpc = "input"
    /\ segments' = process_segments(response, minimum_skip_length)
    /\ mpc' = "done"
    /\ UNCHANGED <<response, minimum_skip_length, earlier>>
    /\ UNCHANGED skipVars
    /\ UNCHANGED notMerge

\* process_segments is applied to the (start, end) pairs of its own output.
Reprocess ==
    /\ mpc = "done"
    /\ earlier' = segments
    /\ response' = Records(Spans(segments))
    /\ segments' = process_segments(response', minimum_skip_length)
    /\ mpc' = "rerun"
    /\ UNCHANGED minimum_skip_length
    /\ UNCHANGED skipVars
    /\ UNCHANGED notMerge

\* process_segments is applied to the same records in another order.
Shuffle(p) ==
    /\ mpc = "done"
    /\ \E i \in DOMAIN p : p[i] # i
    /\ earlier' = segments
    /\ response' = [i \in 1..Len(response) |-> response[p[i]]]
    /\ segments' = process_segments(response', minimum_skip_length)
    /\ mpc' = "shuffled"
    /\ UNCHANGED minimum_skip_length
    /\ UNCHANGED skipVars
    /\ UNCHANGED notMerge

\* ------------------------------------------------------- time_to_segment

\* self.skip is not called.
NoSkip == [called |-> FALSE]

\* device_manager.py:212-237: time_to_segment(segments, position, time_start),
\* as the call of self.skip it makes, if any.  `lag` is
\* (time.time() - time_start) + self.device.offset.  The loop stops at the
\* first segment that holds the position, when the position is below two
\* seconds, or starts after it; `if start_next_segment:` is false for None
\* and for 0.
time_to_segment(segs, pos, lag) ==
    LET found == {i \in 1..Len(segs) :
                    \/ pos < LookBack /\ segs[i].start <= pos /\ pos < segs[i].end
                    \/ segs[i].start > pos} IN
    IF found = {} THEN NoSkip
    ELSE LET i == CHOOSE n \in found : \A o \in found : n <= o
             next_segment == segs[i]
             start_next_segment ==
                 IF pos < LookBack /\ next_segment.start <= pos /\ pos < next_segment.end
                 THEN pos ELSE next_segment.start IN
         IF start_next_segment # 0
         THEN [called |-> TRUE,
               time_to |-> start_next_segment - pos - lag,
               position |-> next_segment.end,
               uuids |-> next_segment.UUID]
         ELSE NoSkip

\* No playback update was processed.
SkipIdle ==
    /\ position = -1
    /\ elapsed = 0
    /\ skipCall = NoSkip

\* device_manager.py:206-209: a Playing update at position pos for the video
\* whose segments were resolved: `if segments:` time_to_segment is called.
TimeToSegment(pos, lag) ==
    /\ mpc = "done"
    /\ position = -1
    /\ segments # <<>>
    /\ position' = pos
    /\ elapsed' = lag
    /\ skipCall' = time_to_segment(segments, pos, lag)
    /\ UNCHANGED mergeVars
    /\ UNCHANGED notMerge

\* --------------------------------------------------------- _process_event

\* video.py:14-19: the values VideoState(data["state"]) accepts.
VideoStates == {"-1", "0", "1", "2", "3"}

\* Payloads of onStateChange and nowPlaying events (types/events.py:85-107):
\* all playback fields ("full"; videoId 0: the payload has none, as in
\* onStateChange), only a listId ("listId"), or nothing ("empty").
Payloads(ev) ==
    {[shape |-> "listId", videoId |-> 0, state |-> ""],
     [shape |-> "empty", videoId |-> 0, state |-> ""]}
    \cup {[shape |-> "full", videoId |-> v, state |-> s] :
            v \in (IF ev = "nowPlaying" THEN 1..MaxVideos ELSE {0}), s \in VideoStates}

\* Payloads with a field CurrentVideo._update cannot coerce: currentTime
\* missing or not a number ("noTime": float(data["currentTime"]) raises at
\* video.py:41), or a state code outside VideoState ("badState", code "9":
\* VideoState(data["state"]) raises at video.py:44).
Malformed(ev) ==
    {[shape |-> "noTime", videoId |-> v, state |-> s] :
        s \in {"1", "2"}, v \in (IF ev = "nowPlaying" THEN 1..MaxVideos ELSE {0})}
    \cup {[shape |-> "badState", videoId |-> v, state |-> "9"] :
            v \in (IF ev = "nowPlaying" THEN 1..MaxVideos ELSE {0})}

\* What the latest call of _process_event did besides the fields of the
\* session: the handler it ran, whether the handler raised (logged at
\* lounge.py:214-215), the tasks passed to api_helper.create_task, whether
\* the event reached super()._process_event, whether the call raised.
NoOutcome ==
    [handler |-> "none", raised |-> FALSE, tasks |-> {}, forwarded |-> FALSE,
     escaped |-> FALSE]

\* A check of the payload that never finds a payload to ignore.
ListIdOnlyNever(data) == FALSE

\* lounge.py:192: len(data) == 1 and "listId" in data
ListIdOnly(data) == data.shape = "listId"

\* events_handlers.py:17-26: _handle_state_change reads data["state"] when
\* mute_ads is set, _handle_now_playing reads data.get("state", "0"); both
\* create the task mute(mute=False, override=True) when the state is "1".
PlaybackHandler(ev, data) ==
    LET unmute == IF config.mute_ads /\ data.state = "1" THEN {"unmute"} ELSE {} IN
    [NoOutcome EXCEPT
        !.handler = ev,
        !.raised = (ev = "onStateChange" /\ config.mute_ads /\ data.shape # "full"),
        !.tasks = unmute,
        !.forwarded = TRUE]

\* lounge.py:180: the stamp every call leaves.
EventStamp ==
    /\ last_event_time' = now + EpochOffset
    /\ lastEventAt' = now
    /\ UNCHANGED <<now, subs, subscribe_task, wds, subscribe_task_watchdog,
                   watchdog_running, smPc, auth, connected, cancelled, loopPc>>

\* lounge.py:177-217: _process_event for an onStateChange or nowPlaying event.
\* A payload with only a listId returns at once.  Otherwise paused follows
\* the state; a payload with the playback fields updates or creates the
\* snapshot (video.py:37-52) and starts update_current_video_data; a payload
\* that cannot be coerced raises KeyError or ValueError in _update after
\* video_id of an existing snapshot was overwritten (video.py:38-39; the
\* time fields before the failing one likewise), and CurrentVideo(data)
\* raises without a snapshot being stored; an empty payload clears
\* the snapshot and the video data.  Then the handler runs and the event goes
\* to super()._process_event.
PlaybackEvent(ev, data) ==
    /\ EventStamp
    /\ IF ListIdOnly(data)
       THEN /\ lastCall' = NoOutcome
            /\ UNCHANGED <<paused, current_video, current_video_data, updating>>
       ELSE /\ paused' = (data.state = "2")
            /\ IF data.shape = "full"
               THEN /\ current_video' = [video_id |-> data.videoId, state |-> data.state]
                    /\ updating' = TRUE
                    /\ lastCall' = [PlaybackHandler(ev, data) EXCEPT
                                      !.tasks = @ \cup {"update_current_video_data"}]
                    /\ UNCHANGED current_video_data
               ELSE IF data.shape = "empty"
               THEN /\ current_video' = NoVideo
                    /\ current_video_data' = 0
                    /\ lastCall' = PlaybackHandler(ev, data)
                    /\ UNCHANGED updating
               ELSE /\ current_video' = IF current_video = NoVideo THEN NoVideo
                                        ELSE [current_video EXCEPT !.video_id = data.videoId]
                    /\ lastCall' = [NoOutcome EXCEPT !.escaped = TRUE]
                    /\ UNCHANGED <<current_video_data, updating>>
    /\ UNCHANGED <<config, mirrorVars>>
    /\ UNCHANGED <<cmdVars, cacheVars, mergeVars, skipVars, lruVars, linkVars>>

\* lounge.py:160-162: the update_current_video_data task runs;
\* get_video_from_id returns the video or None (api_helper.py:345-359).
UpdateVideoData ==
    /\ updating
    /\ updating' = FALSE
    /\ IF current_video # NoVideo /\ current_video.video_id # 0
       THEN \E found \in BOOLEAN :
              current_video_data' = IF found THEN current_video.video_id ELSE 0
       ELSE UNCHANGED current_video_data
    /\ UNCHANGED <<paused, current_video, lastCall, config, mirrorVars>>
    /\ UNCHANGED loungeVars
    /\ UNCHANGED <<cmdVars, cacheVars, mergeVars, skipVars, lruVars, linkVars>>

\* lounge.py:31-42: the values of the enumeration KnownEvents, UNKNWON aside.
KnownEvents ==
    {"onStateChange", "nowPlaying", "onAdStateChange", "autoplayUpNext",
     "volumeChanged", "adPlaying", "loungeStatus", "onSubtitlesTrackChanged",
     "loungeScreenDisconnected", "onAutoplayModeChanged"}

\* An enumeration lookup that also knows the name the screen sends for a
\* volume change.
from_strWithOnVolumeChanged(ev) ==
    IF ev = "onVolumeChanged" THEN "volumeChanged"
    ELSE IF ev \in KnownEvents THEN ev ELSE "unknown"

\* lounge.py:44-49: KnownEvents.from_str: cls(event_type), UNKNWON on ValueError.
from_str(ev) == IF ev \in KnownEvents THEN ev ELSE "unknown"

\* The payloads of the other events the screen sends (types/events.py:110-112,
\* events_handlers.py:27-50, 89-104); "noop" stands for every type that is
\* in no enumeration.
EventData(ev) ==
    CASE ev \in {"onVolumeChanged", "volumeChanged"} ->
            [volume : {"50", "100"}, muted : {"true", "false"}]
      [] ev = "onAdStateChange" ->
            [adState : {"0", "1"}, currentTime : {"0", "5"},
             isSkipEnabled : {"true", "false"}]
      [] ev = "loungeScreenDisconnected" ->
            [reason : {"disconnectedByUserScreenInitiated", "other"}]
      [] ev = "onSubtitlesTrackChanged" -> [videoId : 1..MaxVideos]
      [] OTHER -> {[volume |-> "0", muted |-> "true"]}

\* A handler that plays the video at every change of the subtitles track.
PlaysVideoAlways(flag, handle_shorts) == TRUE

\* events_handlers.py:90: self.shorts_disconnected and config.handle_shorts
PlaysVideo(flag, handle_shorts) == flag /\ handle_shorts

\* lounge.py:177-217 for the events other than onStateChange and nowPlaying.
\* An unknown type goes to super()._process_event and nothing else
\* (lounge.py:183-186).  A known type runs its handler inside try/except and
\* then goes to super()._process_event: _handle_volume_changed
\* (events_handlers.py:49-50), _handle_add_state_change (27-47),
\* _handle_lounge_screen_disconnected (96-104),
\* _handle_subtitles_track_changed (89-93).
OtherEvent(ev, data) ==
    /\ EventStamp
    /\ LET event == from_str(ev)
           ran(ts) == [NoOutcome EXCEPT !.handler = event, !.tasks = ts,
                                        !.forwarded = TRUE] IN
       CASE event = "unknown" ->
               /\ lastCall' = [NoOutcome EXCEPT !.forwarded = TRUE]
               /\ UNCHANGED <<volume_state, shorts_disconnected>>
         [] event = "volumeChanged" ->
               /\ volume_state' = data
               /\ lastCall' = ran({})
               /\ UNCHANGED shorts_disconnected
         [] event = "onAdStateChange" ->
               /\ lastCall' = ran(
                     (IF data.adState = "0" /\ data.currentTime # "0"
                      THEN {"unmute"} ELSE {})
                     \cup (IF config.skip_ads /\ data.isSkipEnabled = "true"
                           THEN {"skip_ad", "unmute"}
                           ELSE IF config.mute_ads THEN {"mute"} ELSE {}))
               /\ UNCHANGED <<volume_state, shorts_disconnected>>
         [] event = "loungeScreenDisconnected" ->
               /\ shorts_disconnected' =
                     IF data.reason = "disconnectedByUserScreenInitiated"
                        /\ config.handle_shorts
                     THEN TRUE ELSE shorts_disconnected
               /\ lastCall' = ran({})
               /\ UNCHANGED volume_state
         [] event = "onSubtitlesTrackChanged" ->
               /\ shorts_disconnected' =
                     IF PlaysVideo(shorts_disconnected, config.handle_shorts)
                     THEN FALSE ELSE shorts_disconnected
               /\ lastCall' = ran(IF PlaysVideo(shorts_disconnected, config.handle_shorts)
                                  THEN {"play_video"} ELSE {})
               /\ UNCHANGED volume_state
    /\ UNCHANGED <<paused, current_video, current_video_data, updating, config, issued>>
    /\ UNCHANGED <<cmdVars, cacheVars, mergeVars, skipVars, lruVars, linkVars>>

\* A test that always asks for the command.
NeedsCommandAlways(override, muted, mute_str) == TRUE

\* lounge.py:225: override or self.volume_state.get("muted", "false") != mute_str
NeedsCommand(override, muted, mute_str) == override \/ muted # mute_str

\* lounge.py:223-231: LoungeAPI.mute(mute, override) up to its call of
\* _command: the mirror takes the new muted value and setVolume is issued
\* with the mirrored volume, or nothing happens.
Mute(mute, override) ==
    LET mute_str == IF mute THEN "true" ELSE "false" IN
    /\ IF NeedsCommand(override, volume_state.muted, mute_str)
       THEN /\ volume_state' = [volume_state EXCEPT !.muted = mute_str]
            /\ issued' = <<[command |-> "setVolume",
                            volume |-> volume_state.volume, muted |-> mute_str]>>
       ELSE /\ issued' = <<>>
            /\ UNCHANGED volume_state
    /\ UNCHANGED <<paused, current_video, current_video_data, updating, lastCall,
                   config, shorts_disconnected>>
    /\ UNCHANGED loungeVars
    /\ UNCHANGED <<cmdVars, cacheVars, mergeVars, skipVars, lruVars, linkVars>>

\* LoungeAPI.__init__ (lounge.py:75-83) with the default configuration
\* (config.py:117-120).
EventsIdle ==
    /\ paused = FALSE
    /\ current_video = NoVideo
    /\ current_video_data = 0
    /\ updating = FALSE
    /\ lastCall = NoOutcome
    /\ config = [mute_ads |-> FALSE, skip_ads |-> FALSE, handle_shorts |-> TRUE]
    /\ volume_state = [volume |-> "100", muted |-> "false"]
    /\ shorts_disconnected = FALSE
    /\ issued = <<>>

\* LoungeAPI.__init__ with any configuration.
EventsInit ==
    /\ paused = FALSE
    /\ current_video = NoVideo
    /\ current_video_data = 0
    /\ updating = FALSE
    /\ lastCall = NoOutcome
    /\ config \in [mute_ads : BOOLEAN, skip_ads : {FALSE}, handle_shorts : {TRUE}]
    /\ volume_state = [volume |-> "100", muted |-> "false"]
    /\ shorts_disconnected = FALSE
    /\ issued = <<>>

\* LoungeAPI.__init__ (lounge.py:75-83) under every configuration of
\* mute_ads, skip_ads and handle_shorts (config.py:117-120).
MirrorInit ==
    /\ paused = FALSE
    /\ current_video = NoVideo
    /\ current_video_data = 0
    /\ updating = FALSE
    /\ lastCall = NoOutcome
    /\ config \in [mute_ads : BOOLEAN, skip_ads : BOOLEAN, handle_shorts : BOOLEAN]
    /\ volume_state = [volume |-> "100", muted |-> "false"]
    /\ shorts_disconnected = FALSE
    /\ issued = <<>>

\* ------------------------------------------------------- specifications

CacheInit ==
    /\ cnow = 0
    /\ comps = <<>>
    /\ segCache = <<>>
    /\ wlCache = <<>>
    /\ timers = {}
    /\ shared = FALSE
    /\ steps = 0
    /\ lru = <<>>
    /\ used = <<>>
    /\ made = 0
    /\ prefetch = [k \in Keys |-> "none"]
    /\ fetchOf = [t \in TaskIds |-> NoFetch]
    /\ lastUpd = 0

Init == LoungeInit /\ CmdInit /\ CacheInit /\ MergeIdle /\ SkipIdle /\ EventsIdle

\* subscribe_monitored called by a client of the session that makes one call
\* at a time (DeviceManager.loop is such a client).
ApiSubscribe ==
    /\ SM_Enter
    /\ UNCHANGED loopPc

\* The session driven through its interface: subscribe_monitored, close.
NextSession ==
    \/ ApiSubscribe
    \/ SM_AfterWd
    \/ SM_AfterSub
    \/ \E w \in SubIds : WdStart(w)
    \/ \E w \in SubIds : WdPoll(w)
    \/ \E w \in SubIds : WdGraceOver(w)
    \/ \E w \in SubIds : WdCancelled(w)
    \/ \E s \in SubIds : SubCancelled(s)
    \/ \E s \in SubIds : SubEnds(s)
    \/ ProcessEvent
    \/ Tick
    \/ LoungeClose

SpecSession == Init /\ [][NextSession]_vars

\* The session driven by DeviceManager.loop, with DeviceManager.close and
\* LoungeAPI.close called from outside.  The loop calls subscribe_monitored
\* only after `await sub` returned, so the await of a earlier subscription
\* (SM_AfterSub) has no step here.
NextLoop ==
    \/ LoopTop
    \/ LoopAuth
    \/ LoopAvail
    \/ LoopConnect
    \/ LoopRetry
    \/ LoopSubscribe
    \/ LoopAwaitSub
    \/ SM_AfterWd
    \/ \E w \in SubIds : WdStart(w)
    \/ \E w \in SubIds : WdPoll(w)
    \/ \E w \in SubIds : WdGraceOver(w)
    \/ \E w \in SubIds : WdCancelled(w)
    \/ \E s \in SubIds : SubCancelled(s)
    \/ \E s \in SubIds : SubEnds(s)
    \/ ProcessEvent
    \/ Tick
    \/ DMCloseBegin
    \/ LoungeClose

SpecLoop == Init /\ [][NextLoop]_vars

\* The loop with the expiry of the token and refresh_auth_loop, the clock
\* standing still.
NextRetry ==
    \/ LoopTop
    \/ LoopAuth
    \/ LoopAvail
    \/ LoopConnect
    \/ LoopRetry
    \/ LoopSubscribe
    \/ LoopAwaitSub
    \/ SM_AfterWd
    \/ \E w \in SubIds : WdStart(w)
    \/ \E w \in SubIds : WdCancelled(w)
    \/ \E s \in SubIds : SubCancelled(s)
    \/ \E s \in SubIds : SubEnds(s)
    \/ TokenExpires
    \/ RefreshAuthLoop
    \/ DMCloseBegin
    \/ LoungeClose

\* The event loop runs every task that is ready: the steps of loop(), of
\* subscribe_monitored, of the cancelled tasks and of refresh_auth_loop are
\* taken when they stay possible.  A polling step that changes nothing is no
\* step: an operation polled for ever succeeds once when it can.
FairRetry ==
    /\ WF_vars(LoopTop)
    /\ WF_vars(LoopAuth)
    /\ WF_vars(LoopAvail)
    /\ WF_vars(LoopConnect)
    /\ WF_vars(LoopRetry)
    /\ WF_vars(LoopSubscribe)
    /\ WF_vars(LoopAwaitSub)
    /\ WF_vars(SM_AfterWd)
    /\ \A w \in SubIds : WF_vars(WdStart(w)) /\ WF_vars(WdCancelled(w))
    /\ \A s \in SubIds : WF_vars(SubCancelled(s))
    /\ WF_vars(RefreshAuthLoop)

SpecRetry == Init /\ [][NextRetry]_vars /\ FairRetry

\* The loop with a video the screen reports as playing, and the two closes,
\* the clock standing still.
NextClose ==
    \/ LoopTop
    \/ LoopAuth
    \/ LoopAvail
    \/ LoopConnect
    \/ LoopRetry
    \/ LoopSubscribe
    \/ LoopAwaitSub
    \/ SM_AfterWd
    \/ \E w \in SubIds : WdStart(w)
    \/ \E w \in SubIds : WdCancelled(w)
    \/ \E s \in SubIds : SubCancelled(s)
    \/ \E s \in SubIds : SubEnds(s)
    \/ \E v \in 1..MaxVideos :
          PlaybackEvent("nowPlaying", [shape |-> "full", videoId |-> v, state |-> "1"])
    \/ UpdateVideoData
    \/ DMCloseBegin
    \/ LoungeClose

SpecClose == Init /\ [][NextClose]_vars

\* Playback updates, skips and commands of one device.
NextCmd ==
    \/ \E hasVideo \in BOOLEAN, playing \in BOOLEAN : Call(hasVideo, playing)
    \/ \E t \in TaskIds : SkipStart(t)
    \/ \E t \in TaskIds : SkipFetched(t)
    \/ \E t \in TaskIds : SkipSlept(t)
    \/ \E t \in TaskIds : SkipMarked(t)
    \/ \E t \in TaskIds : SkipCancelled(t)
    \/ IssueCommand
    \/ \E t \in TaskIds : WaiterAcquires(t)
    \/ \E t \in TaskIds : WaiterCancelled(t)
    \/ \E t \in TaskIds : SendEnds(t)
    \/ DMCloseBegin
    \/ DMCloseFinish
    \/ LoungeClose

SpecCmd == Init /\ [][NextCmd]_vars

\* The event loop runs every task that is ready: a woken or cancelled mutex
\* waiter resumes, and a send ends (the requests of the session have a
\* timeout, utils.py:38).
FairCmd ==
    \A t \in TaskIds :
        /\ WF_vars(WaiterAcquires(t))
        /\ WF_vars(WaiterCancelled(t))
        /\ WF_vars(SendEnds(t))

\* The users of the command mutex: the skip of a Playing update, which a
\* newer update cancels, the commands of the event handlers, and close.
NextMutex ==
    \/ Call(TRUE, TRUE)
    \/ \E t \in TaskIds : SkipStart(t)
    \/ \E t \in TaskIds : SkipFetched(t)
    \/ \E t \in TaskIds : SkipSlept(t)
    \/ \E t \in TaskIds : SkipMarked(t)
    \/ \E t \in TaskIds : SkipCancelled(t)
    \/ IssueCommand
    \/ \E t \in TaskIds : WaiterAcquires(t)
    \/ \E t \in TaskIds : WaiterCancelled(t)
    \/ \E t \in TaskIds : SendEnds(t)
    \/ LoungeClose

SpecMutex == Init /\ [][NextMutex]_vars /\ FairCmd

\* The two task caches of ProcessSegments with their callers and the clock.
NextCache ==
    \/ \E k \in Keys : CallSegments(k)
    \/ \E c \in 1..MaxComps : SegStart(c)
    \/ \E c \in 1..MaxComps : SegResume(c)
    \/ \E c \in 1..MaxComps : SegFetched(c)
    \/ \E w \in 1..MaxComps : WlStart(w)
    \/ \E w \in 1..MaxComps : WlFetched(w)
    \/ \E c \in 1..MaxComps : CancelAwaiter(c)
    \/ \E c \in 1..MaxComps : CompCancelled(c)
    \/ \E tm \in timers : TimerFires(tm)
    \/ CacheTick
    \/ CacheJump

SpecCache == Init /\ [][NextCache]_vars

\* ------------------------------- playback updates sharing get_segments tasks

\* asyncio.Task.cancel() on a task that awaits the get_segments task c: the
\* request goes to the future the task waits on, down the chain of awaited
\* tasks, so the innermost task that is not done gets it.  Nothing happens
\* when c is done.
CancelChain(cs, c) ==
    IF c = NoComp \/ cs[c].st \in {"done", "failed", "cancelled"}
    THEN cs
    ELSE IF cs[c].st = "wl_wait" /\ cs[cs[c].wl].st \notin {"done", "failed", "cancelled"}
         THEN [cs EXCEPT ![cs[c].wl].cancelReq = TRUE]
         ELSE [cs EXCEPT ![c].cancelReq = TRUE]

\* device_manager.py:103-113: DeviceManager.__call__ on a playback update
\* for video k.  Cancelling the main task cancels the get_segments task it
\* awaits.  The update is taken only while the tasks it may make fit in
\* MaxComps; video ids are numbered in the order of their first use.
CallVideo(k, playing) ==
    /\ FreeSlots # {}
    /\ \A j \in Keys : j < k => j \in KnownKeys \cup {fetchOf[t].key : t \in TaskIds}
    /\ Len(comps) + 1 + (IF TaskAt(wlCache, k) = NoComp THEN 1 ELSE 0)
         + Cardinality({c \in CompIds : /\ comps[c].fn = "get_segments"
                                        /\ comps[c].st = "new"
                                        /\ TaskAt(wlCache, comps[c].key) = NoComp})
         <= MaxComps
    /\ LET id == NewSlot
           prior == IF main_task \in TaskIds /\ tasks[main_task].pc \in PendingPcs
                    THEN [tasks EXCEPT ![main_task].stale = TRUE] ELSE tasks IN
        /\ tasks' = [CancelTask(prior, main_task) EXCEPT ![id] =
                        [kind |-> "skip", pc |-> "start", cancelReq |-> FALSE,
                         stale |-> FALSE, hasVideo |-> TRUE, playing |-> playing]]
        /\ waiters' = CancelWaiter(waiters, main_task)
        /\ comps' = IF main_task \in TaskIds /\ tasks[main_task].pc = "fetch"
                    THEN CancelChain(comps, fetchOf[main_task].comp)
                    ELSE comps
        /\ fetchOf' = [fetchOf EXCEPT ![id] = [NoFetch EXCEPT !.key = k]]
        /\ main_task' = id
        /\ lastUpd' = id
    /\ UNCHANGED <<locked, closePc, staleCancelled, prefetch>>
    /\ UNCHANGED <<cnow, segCache, wlCache, timers, shared, steps>>
    /\ UNCHANGED <<loungeVars, mergeVars, skipVars, eventVars, lruVars>>

\* device_manager.py:200-209 with sinbad_cache.py:33-39: the await of the
\* get_segments task c, which is done, returns its segment list or raises
\* its exception or CancelledError into process_playstatus.  A Playing update
\* with a next segment goes on to skip() and its sleep.
Deliver(t, c) ==
    IF comps[c].st = "done" /\ comps[c].res # "whitelisted"
    THEN \E res \in {"segment", "nothing"} :
           IF ArmsSkip(res, tasks[t].playing)
           THEN /\ tasks' = [tasks EXCEPT ![t].pc = "sleep"]
                /\ main_task' = main_task
                /\ fetchOf' = [fetchOf EXCEPT ![t].comp = c, ![t].end = "armed"]
           ELSE /\ tasks' = Finish(tasks, t)
                /\ main_task' = MainAfter(t)
                /\ fetchOf' = [fetchOf EXCEPT ![t].comp = c, ![t].end = "nothing"]
    ELSE /\ tasks' = Finish(tasks, t)
         /\ main_task' = MainAfter(t)
         /\ fetchOf' = [fetchOf EXCEPT
                           ![t].comp = c,
                           ![t].end = IF comps[c].st = "done" THEN "nothing"
                                      ELSE IF comps[c].st = "failed" THEN "error"
                                      ELSE "cancelled"]

\* device_manager.py:197-200: first run of process_playstatus: it calls
\* get_segments (api_helper.py:362-363 -> sinbad_cache.py:147-155), which
\* returns the cached task of the video or makes one, and awaits the task.
\* A task cancelled before its first run never executes its body.
SkipStartC(t) ==
    /\ tasks[t].kind = "skip"
    /\ tasks[t].pc = "start"
    /\ IF tasks[t].cancelReq
       THEN /\ tasks' = Finish(tasks, t)
            /\ main_task' = MainAfter(t)
            /\ staleCancelled' = (staleCancelled \/ tasks[t].stale)
            /\ UNCHANGED <<comps, segCache, shared, fetchOf>>
       ELSE /\ staleCancelled' = staleCancelled
            /\ LET k == fetchOf[t].key
                   c == CachedTask(segCache, k) IN
                 IF c # NoComp
                 THEN /\ comps' = comps
                      /\ segCache' = LRUGetItem(segCache, k)
                      /\ shared' = (shared \/ ~CompDone(c))
                      /\ IF CompDone(c)
                         THEN Deliver(t, c)
                         ELSE /\ tasks' = [tasks EXCEPT ![t].pc = "fetch"]
                              /\ main_task' = main_task
                              /\ fetchOf' = [fetchOf EXCEPT ![t].comp = c]
                 ELSE /\ Len(comps) < MaxComps
                      /\ shared' = shared
                      /\ LET id == Len(comps) + 1 IN
                           /\ segCache' = LRUSetItem(segCache, k, id, SegMaxSize)
                           /\ comps' = MarkLeft(Append(comps, NewComp("get_segments", k)),
                                                Popped(segCache, k, id, SegMaxSize), "lru")
                           /\ fetchOf' = [fetchOf EXCEPT ![t].comp = id]
                      /\ tasks' = [tasks EXCEPT ![t].pc = "fetch"]
                      /\ main_task' = main_task
    /\ UNCHANGED <<locked, waiters, closePc, prefetch, lastUpd>>
    /\ UNCHANGED <<cnow, wlCache, timers, steps>>
    /\ UNCHANGED <<loungeVars, mergeVars, skipVars, eventVars, lruVars>>

\* device_manager.py:200: the awaited get_segments task is done,
\* process_playstatus resumes.
SkipResumeC(t) ==
    /\ tasks[t].kind = "skip"
    /\ tasks[t].pc = "fetch"
    /\ ~tasks[t].cancelReq
    /\ fetchOf[t].comp # NoComp
    /\ CompDone(fetchOf[t].comp)
    /\ Deliver(t, fetchOf[t].comp)
    /\ UNCHANGED <<locked, waiters, closePc, staleCancelled, prefetch, lastUpd>>
    /\ UNCHANGED cacheVars
    /\ UNCHANGED <<loungeVars, mergeVars, skipVars, eventVars, lruVars>>

\* Playback updates, their skip tasks and the get_segments tasks they await.
NextSupersede ==
    \/ \E k \in Keys, playing \in BOOLEAN : CallVideo(k, playing)
    \/ \E t \in TaskIds : SkipStartC(t)
    \/ \E t \in TaskIds : SkipResumeC(t)
    \/ \E t \in TaskIds : SkipCancelled(t)
    \/ \E t \in TaskIds : SkipSlept(t)
    \/ \E t \in TaskIds : SkipMarked(t)
    \/ \E t \in TaskIds : WaiterAcquires(t)
    \/ \E t \in TaskIds : WaiterCancelled(t)
    \/ \E t \in TaskIds : SendEnds(t)
    \/ \E c \in 1..MaxComps : SegStart(c)
    \/ \E c \in 1..MaxComps : SegResume(c)
    \/ \E c \in 1..MaxComps : SegFetched(c)
    \/ \E w \in 1..MaxComps : WlStart(w)
    \/ \E w \in 1..MaxComps : WlFetched(w)
    \/ \E c \in 1..MaxComps : CompCancelled(c)

\* The event loop runs every task that is ready, and the requests of the
\* session end (utils.py:38).
FairSupersede ==
    /\ \A t \in TaskIds :
          /\ WF_vars(SkipStartC(t))
          /\ WF_vars(SkipResumeC(t))
          /\ WF_vars(SkipCancelled(t))
    /\ \A c \in 1..MaxComps :
          /\ WF_vars(SegStart(c))
          /\ WF_vars(SegResume(c))
          /\ WF_vars(SegFetched(c))
          /\ WF_vars(WlStart(c))
          /\ WF_vars(WlFetched(c))
          /\ WF_vars(CompCancelled(c))

SpecSupersede == Init /\ [][NextSupersede]_vars /\ FairSupersede

\* The prefetch of the autoplayUpNext handler and the segment resolution of
\* the playback updates (device_manager.py:200), no time passing.
NextPrefetch ==
    \/ \E vid \in {0} \cup Keys : AutoplayUpNext(vid)
    \/ \E k \in Keys : PrefetchStart(k)
    \/ \E k \in Keys : PrefetchResume(k)
    \/ \E k \in Keys : CallSegments(k)
    \/ \E c \in 1..MaxComps : SegStart(c)
    \/ \E c \in 1..MaxComps : SegResume(c)
    \/ \E c \in 1..MaxComps : SegFetched(c)
    \/ \E w \in 1..MaxComps : WlStart(w)
    \/ \E w \in 1..MaxComps : WlFetched(w)

SpecPrefetch == Init /\ [][NextPrefetch]_vars

\* One LRU with its calls and removals.
NextLru ==
    \/ \E k \in 1..(LruMaxSize + 1) : LruCall(k)
    \/ \E k \in 1..(LruMaxSize + 1) : LruRemove(k)

SpecLru == Init /\ [][NextLru]_vars

\* process_segments on every response within the bounds, on its own output
\* and on the reordered response.
InitMerge == LoungeInit /\ CmdInit /\ CacheInit /\ MergeInit /\ SkipIdle /\ EventsIdle

NextMerge ==
    \/ Process
    \/ Reprocess
    \/ \E p \in Permutations(1..Len(response)) : Shuffle(p)

SpecMerge == InitMerge /\ [][NextMerge]_vars

\* process_segments on responses with a record that lacks a key.
InitRaw == LoungeInit /\ CmdInit /\ CacheInit /\ RawInit /\ SkipIdle /\ EventsIdle

NextRaw == Process

SpecRaw == InitRaw /\ [][NextRaw]_vars

\* Playing updates at every position for every resolved segment list.
NextSkip ==
    \/ Process
    \/ \E pos \in 0..MaxPos, lag \in 0..MaxLag : TimeToSegment(pos, lag)

SpecSkip == InitMerge /\ [][NextSkip]_vars

\* The playback events a session processes, under every configuration.
InitEvents ==
    LoungeInit /\ CmdInit /\ CacheInit /\ MergeIdle /\ SkipIdle /\ EventsInit

NextEvents ==
    \/ \E ev \in {"onStateChange", "nowPlaying"} :
          \E data \in Payloads(ev) \cup Malformed(ev) : PlaybackEvent(ev, data)
    \/ UpdateVideoData

SpecEvents == InitEvents /\ [][NextEvents]_vars

\* The volume mirror, the ad events and the shorts flag of one session.
InitMirror ==
    LoungeInit /\ CmdInit /\ CacheInit /\ MergeIdle /\ SkipIdle /\ MirrorInit

NextMirror ==
    \/ \E ev \in {"onVolumeChanged", "volumeChanged", "onAdStateChange",
                   "loungeScreenDisconnected", "onSubtitlesTrackChanged", "noop"} :
          \E data \in EventData(ev) : OtherEvent(ev, data)
    \/ \E mute, override \in BOOLEAN : Mute(mute, override)

SpecMirror == InitMirror /\ [][NextMirror]_vars

\* ------------------------------------------------------------- claims

C2_StalePollCancels ==
    [][\A w \in SubIds :
         ( /\ WdPoll(w)
           /\ subscribe_task # 0
           /\ SubActive(subscribe_task)
           /\ now - lastEventAt > WatchdogThreshold )
         => subs'[subscribe_task].cancelReq]_vars

\* C3: after the watchdog cancelled a stale subscription, the loop of a device
\* that is not closed keeps running.
C3_LoopSurvivesWatchdog ==
    \A s \in SubIds :
        (subs[s].st = "done_cancelled" /\ subs[s].by = "watchdog" /\ ~cancelled)
            => loopPc # "crashed"

\* C4: at most one outbound command of a session is inside the underlying
\* send at any time.
C4_OneCommandInFlight == Cardinality(InFlight) <= 1

\* C5: a skip that was still pending when a newer playback update arrived
\* never has its seek_to command inside the send.
C5_NoStaleSeek == \A t \in TaskIds : tasks[t].stale => tasks[t].pc # "sending"

\* C5 witness: a pending skip was superseded and ended cancelled, and the skip
\* armed by the newer update has its seek inside the send.
C5_Witness ==
    /\ staleCancelled
    /\ main_task \in TaskIds
    /\ tasks[main_task].pc = "sending"

\* A time at which no removal timer is due but not yet run.
Settled == \A tm \in timers : tm.due > cnow

Running(fn, k) ==
    {c \in CompIds : comps[c].fn = fn /\ comps[c].key = k /\ ~CompDone(c)}

\* C6: calls of get_segments with one key made while the computation for the
\* key runs and its entry stays in the cache share one task: at most one such
\* computation per key is not done.
C6_SingleFlight ==
    \A k \in Keys :
        Cardinality({c \in Running("get_segments", k) : comps[c].left = "no"}) <= 1

\* C6 witness: one get_segments task was ever created, a second call received
\* it while it was not done, and it is still not done.
C6_Witness ==
    /\ shared
    /\ Cardinality({c \in CompIds : comps[c].fn = "get_segments"}) = 1
    /\ \E c \in CompIds : comps[c].fn = "get_segments" /\ ~CompDone(c)

\* C7: at any time at most one computation per cached function and key is
\* not done.
C7_OneInFlightPerKey ==
    \A fn \in {"get_segments", "is_whitelisted"}, k \in Keys :
        Cardinality(Running(fn, k)) <= 1

\* C8: an entry with skip_ttl_ok false that LRU pressure did not evict is in
\* the cache up to 299 s after its insertion and is not from 301 s on.
C8_TtlFromInsertion ==
    Settled =>
        \A c \in CompIds :
            ( /\ comps[c].fn = "get_segments"
              /\ comps[c].st = "done"
              /\ comps[c].res = "expiring"
              /\ comps[c].left # "lru" )
            => /\ cnow - comps[c].born <= Ttl - 1 => TaskAt(segCache, comps[c].key) = c
               /\ cnow - comps[c].born >= Ttl + 1 => TaskAt(segCache, comps[c].key) # c

\* C9: an entry whose result has skip_ttl_ok true stays in the cache after the
\* computation completed, unless LRU pressure evicted it.
C9_LockedEntryStays ==
    \A c \in CompIds :
        ( /\ comps[c].fn = "get_segments"
          /\ comps[c].st = "done"
          /\ comps[c].res \in {"locked", "whitelisted"}
          /\ comps[c].left # "lru" )
        => TaskAt(segCache, comps[c].key) = c

\* C10: a computation that completed with an exception is not in its cache,
\* be it the cache with a ttl (get_segments) or without (is_whitelisted).
C10_FailureRemoved ==
    \A c \in CompIds :
        comps[c].st = "failed"
            => /\ TaskAt(segCache, comps[c].key) # c
               /\ TaskAt(wlCache, comps[c].key) # c

\* C11: no call is handed a cancelled task: neither a call of get_segments
\* (the segments cache) nor the call of is_whitelisted that get_segments makes
\* (the whitelist cache) receives from the cache a task that ended cancelled.
C11_NoCancelledTaskHandedOut ==
    [][ /\ \A k \in Keys :
             CallSegments(k) =>
                 LET c == CachedTask(segCache, k) IN
                     c # NoComp => comps[c].st # "cancelled"
        /\ \A c \in 1..MaxComps :
             SegStart(c) =>
                 LET w == CachedTask(wlCache, comps[c].key) IN
                     w # NoComp => comps[w].st # "cancelled" ]_vars

\* The maximal chains of overlapping or touching records of a response, each
\* as <<minimum start, maximum end>>: every half second between the two is
\* inside a record, the half seconds before and after are not.
Chains(recs) ==
    LET Inside(t) == \E i \in 1..Len(recs) : recs[i].start <= t /\ t + 1 <= recs[i].end IN
    {c \in (0..MaxPos) \X (0..MaxPos) :
        /\ c[1] < c[2]
        /\ \A t \in c[1]..(c[2] - 1) : Inside(t)
        /\ ~Inside(c[1] - 1)
        /\ ~Inside(c[2])}

\* C12: every maximal chain of overlapping or touching records that is longer
\* than minimum_skip_length and a second or more away from the other chains
\* is returned as exactly one segment, from its minimum start to its maximum end.
C12_ChainCoalesced ==
    mpc # "input" =>
        \A c \in Chains(response) :
            ( /\ c[2] - c[1] > minimum_skip_length
              /\ \A d \in Chains(response) :
                    d # c => (d[1] - c[2] >= OneSecond \/ c[1] - d[2] >= OneSecond) )
            => /\ \E i \in 1..Len(segments) : Spans(segments)[i] = c
               /\ Cardinality({i \in 1..Len(segments) :
                        c[1] <= segments[i].start /\ segments[i].end <= c[2]}) = 1

\* C13: of two neighbouring chains less than a second apart, each longer than
\* minimum_skip_length, one returned segment spans both and carries the UUIDs
\* of the records of both, and no returned segment starts where the later
\* chain starts.
C13_ProximityMerged ==
    mpc # "input" =>
        \A c, d \in Chains(response) :
            ( /\ c[2] < d[1]
              /\ d[1] - c[2] < OneSecond
              /\ c[2] - c[1] > minimum_skip_length
              /\ d[2] - d[1] > minimum_skip_length )
            => /\ \E i \in 1..Len(segments) :
                    /\ segments[i].start <= c[1]
                    /\ segments[i].end >= d[2]
                    /\ \A r \in 1..Len(response) :
                          (c[1] <= response[r].start /\ response[r].end <= d[2])
                              => \E u \in 1..Len(segments[i].UUID) :
                                    segments[i].UUID[u] = response[r].UUID
               /\ \A j \in 1..Len(segments) : segments[j].start # d[1]

\* C14: a returned list is sorted by start and consecutive segments are a
\* second or more apart (so no two segments overlap).
C14_SortedAndApart ==
    mpc # "input" =>
        \A i \in 1..(Len(segments) - 1) :
            /\ segments[i].start <= segments[i + 1].start
            /\ segments[i + 1].start - segments[i].end >= OneSecond

\* C15: process_segments applied to the (start, end) pairs of its own output
\* returns the same list of (start, end) pairs.
C15_Idempotent == mpc = "rerun" => Spans(segments) = Spans(earlier)

\* C16: process_segments returns the same set of segments, each a range with
\* the set of UUIDs it carries, for the same records in another order.
C16_OrderIndependent ==
    LET SegSet(segs) ==
            {[range |-> Spans(segs)[i],
              ids |-> {segs[i].UUID[u] : u \in 1..Len(segs[i].UUID)}] :
                i \in 1..Len(segs)} IN
    mpc = "shuffled" => SegSet(segments) = SegSet(earlier)

\* C17: every returned segment is longer than minimum_skip_length.
C17_LongerThanMinimum ==
    mpc # "input" =>
        \A i \in 1..Len(segments) :
            segments[i].end - segments[i].start > minimum_skip_length

\* C17 witness: with a positive minimum_skip_length, a returned segment had
\* its end moved by the proximity merge to the end of a record that started
\* after the segment's end.
C17_Witness ==
    /\ mpc = "done"
    /\ minimum_skip_length > 0
    /\ \E i \in 1..Len(segments), r \in 1..Len(response) :
          /\ Len(segments[i].UUID) > 1
          /\ response[r].UUID = segments[i].UUID[Len(segments[i].UUID)]
          /\ response[r].start > response[segments[i].UUID[1]].end
          /\ segments[i].end = response[r].end

\* C18: a get_segments computation whose is_whitelisted task returned true
\* never has the provider request in flight, and when it is done its result
\* is the empty list returned at api_helper.py:61.
C18_WhitelistedNoRequest ==
    \A c \in CompIds :
        ( /\ comps[c].fn = "get_segments"
          /\ comps[c].wl # NoComp
          /\ comps[comps[c].wl].st = "done"
          /\ comps[comps[c].wl].res = "yes" )
        => /\ comps[c].st # "fetch"
           /\ comps[c].st = "done" => comps[c].res = "whitelisted"

\* C18 witness: the channel lookup of is_whitelisted returned true and the
\* get_segments computation that awaited it is done with the empty list.
C18_Witness ==
    \E c \in CompIds :
        /\ comps[c].fn = "get_segments"
        /\ comps[c].st = "done"
        /\ comps[c].res = "whitelisted"
        /\ comps[c].wl # NoComp
        /\ comps[comps[c].wl].res = "yes"

\* C19: after a Playing update at a position below two seconds that lies
\* inside a segment, time_to_segment has called skip for the first such
\* segment of the list: seek to its end, with its UUIDs, after the delay
\* position - position - elapsed, which does not depend on the segment start.
C19_LookBackSkips ==
    position # -1 =>
        LET holds == {i \in 1..Len(segments) :
                        /\ position < LookBack
                        /\ segments[i].start <= position
                        /\ position < segments[i].end} IN
        holds # {} =>
            LET i == CHOOSE n \in holds : \A o \in holds : n <= o IN
                /\ skipCall.called
                /\ skipCall.position = segments[i].end
                /\ skipCall.uuids = segments[i].UUID
                /\ skipCall.time_to = 0 - elapsed

\* C20: processing an onStateChange or nowPlaying event whose payload holds
\* only a listId leaves current_video, current_video_data and paused as they
\* were, runs no handler and creates no task.
C20_ListIdOnlyIgnored ==
    [][\A ev \in {"onStateChange", "nowPlaying"} :
         PlaybackEvent(ev, [shape |-> "listId", videoId |-> 0, state |-> ""])
         => /\ current_video' = current_video
            /\ current_video_data' = current_video_data
            /\ paused' = paused
            /\ lastCall'.handler = "none"
            /\ lastCall'.tasks = {}
            /\ ~lastCall'.escaped]_vars

\* C20 witness: a paused video with fetched video data is the snapshot and the
\* latest event processed was one holding only a listId.
C20_Witness ==
    /\ lastCall = NoOutcome
    /\ last_event_time # 0
    /\ paused
    /\ current_video # NoVideo
    /\ current_video.state = "2"
    /\ current_video_data # 0

\* C21: processing an onStateChange or nowPlaying event with a field that
\* cannot be coerced does not raise out of _process_event and leaves the
\* snapshot current_video as it was.
C21_MalformedDropped ==
    [][\A ev \in {"onStateChange", "nowPlaying"} : \A data \in Malformed(ev) :
         PlaybackEvent(ev, data)
         => /\ ~lastCall'.escaped
            /\ current_video' = current_video]_vars

\* C22: an event whose type name is not in the known enumeration does not
\* raise out of _process_event, runs no handler and creates no task, leaves
\* the volume mirror, paused, current_video and the shorts flag as they
\* were, and is forwarded to the default handler.
C22_UnknownEventOnlyForwarded ==
    [][\A ev \in {"onVolumeChanged", "volumeChanged", "onAdStateChange",
                  "loungeScreenDisconnected", "onSubtitlesTrackChanged",
                  "noop"} \ KnownEvents :
         \A data \in EventData(ev) :
           OtherEvent(ev, data)
           => /\ volume_state' = volume_state
              /\ paused' = paused
              /\ current_video' = current_video
              /\ shorts_disconnected' = shorts_disconnected
              /\ lastCall' = [NoOutcome EXCEPT !.forwarded = TRUE]]_vars

\* C22 witness: with a changed volume mirror and the shorts flag set, the
\* latest event processed was one of an unknown type.
C22_Witness ==
    /\ lastCall = [NoOutcome EXCEPT !.forwarded = TRUE]
    /\ last_event_time # 0
    /\ volume_state.volume = "50"
    /\ shorts_disconnected

\* C23: when an onVolumeChanged event is processed, the volume mirror takes
\* the volume and muted values of the event, and no task and no command
\* follows.
C23_VolumeMirrored ==
    [][\A data \in EventData("onVolumeChanged") :
         OtherEvent("onVolumeChanged", data)
         => /\ volume_state' = data
            /\ lastCall'.tasks = {}
            /\ issued' = issued]_vars

\* C24: an onAdStateChange event that says the ad ended (adState "0" at a
\* current time other than "0") creates the unmute and no mute, under every
\* setting of skip_ads and mute_ads.
C24_AdEndedOnlyUnmutes ==
    [][\A data \in EventData("onAdStateChange") :
         (/\ data.adState = "0"
          /\ data.currentTime # "0"
          /\ OtherEvent("onAdStateChange", data))
         => /\ "unmute" \in lastCall'.tasks
            /\ "mute" \notin lastCall'.tasks]_vars

\* C25: mute(m, override) with override false and a mirror whose muted value
\* is already m sends no command and leaves the mirror as it was; otherwise
\* it sends exactly one setVolume command with the mirrored volume and the
\* new muted value, which the mirror takes.
C25_MuteOnlyWhenNeeded ==
    [][\A m, override \in BOOLEAN :
         Mute(m, override)
         => LET m_str == IF m THEN "true" ELSE "false" IN
            IF ~override /\ volume_state.muted = m_str
            THEN /\ issued' = <<>>
                 /\ volume_state' = volume_state
            ELSE /\ issued' = <<[command |-> "setVolume",
                                 volume |-> volume_state.volume,
                                 muted |-> m_str]>>
                 /\ volume_state' = [volume_state EXCEPT !.muted = m_str]]_vars

\* C25 witness: after the screen reported volume 50, a mute call sent
\* setVolume with volume 50 and muted true.
C25_Witness ==
    /\ issued = <<[command |-> "setVolume", volume |-> "50", muted |-> "true"]>>
    /\ volume_state = [volume |-> "50", muted |-> "true"]

\* C26: when the provider request of get_segments returns or raises (a
\* timeout, a connection error), get_segments completes with a result: its
\* task, which process_playstatus awaits, does not end with the exception.
C26_RequestErrorCaught ==
    [][\A c \in 1..MaxComps : SegFetched(c) => comps'[c].st = "done"]_vars

\* C27: a record that lacks the segment pair or the UUID is skipped alone:
\* process_segments returns what it returns for the records of the response
\* that lack nothing.
C27_MalformedRecordSkipped ==
    mpc = "done" =>
        segments = process_segments(SelectSeq(response, LAMBDA r : r.lacks = "none"),
                                    minimum_skip_length)

\* C28: when the link or the token of the session has expired while the loop
\* is in its connect phase (connect raises NotLinkedException or is answered
\* with 401), the loop eventually reaches the refresh of the auth again
\* (device_manager.py:142-145), unless the manager is closed.
C28_ExpiryReachesRefresh ==
    []((/\ loopPc \in {"connect", "retry"}
        /\ ~connected
        /\ ~cancelled
        /\ (~linked \/ auth.rejected))
       => <>((loopPc = "auth" /\ ~linked) \/ cancelled))

Disconnected ==
    /\ subscribe_task # 0 =>
          SubDone(subscribe_task) \/ subs[subscribe_task].cancelReq
    /\ subscribe_task_watchdog # 0 =>
          ~WdActive(subscribe_task_watchdog) \/ wds[subscribe_task_watchdog].cancelReq
    /\ ~connected
    /\ ~auth.lounge_id_token
    /\ ~auth.screen_id
    /\ ~linked
    /\ current_video = NoVideo

\* C30: whatever the state in which LoungeAPI.close is called, by itself or
\* at the end of DeviceManager.close, it leaves the session disconnected.
C30_CloseDisconnects ==
    [][(LoungeClose \/ (DMCloseBegin /\ main_task = 0) \/ DMCloseFinish)
       => Disconnected']_vars

\* C30 witness: close was called on a session with a running subscription,
\* an active watchdog and a snapshot whose video data had been fetched.
C30_Witness ==
    /\ Disconnected
    /\ subscribe_task # 0
    /\ subs[subscribe_task].st = "running"
    /\ subs[subscribe_task].by = "close"
    /\ WdActive(subscribe_task_watchdog)
    /\ wds[subscribe_task_watchdog].cancelReq
    /\ current_video_data # 0
    /\ loopPc = "in_sub"

\* C36: the minimum-length filter is applied after the proximity merge: for
\* a response of two records, each not longer than minimum_skip_length, the
\* second starting after the end of the first and less than a second from
\* it, and the two together spanning more than minimum_skip_length, the
\* output is one segment from the start of the first to the end of the second.
C36_FilterAfterProximityMerge ==
    (/\ mpc = "done"
     /\ Len(response) = 2)
    => \A a, b \in 1..2 :
          (/\ response[a].end < response[b].start
           /\ response[b].start - response[a].end < OneSecond
           /\ response[a].end - response[a].start <= minimum_skip_length
           /\ response[b].end - response[b].start <= minimum_skip_length
           /\ response[b].end - response[a].start > minimum_skip_length)
          => Spans(segments) = <<<<response[a].start, response[b].end>>>>

\* C38: the LRU never holds more than maxsize items, and the item a call
\* evicts is the one whose key was least recently used, where an insertion
\* and a hit both count as a use.
C38_EvictsLeastRecentlyUsed ==
    /\ [](Len(lru) <= LruMaxSize)
    /\ [][\A k \in 1..(LruMaxSize + 1) :
            LruCall(k) =>
               LET Rank(key) == CHOOSE i \in 1..Len(used) : used[i] = key IN
               \A e \in LRUKeys(lru) \ LRUKeys(lru') :
                  /\ Len(lru) = LruMaxSize
                  /\ k \notin LRUKeys(lru)
                  /\ \A o \in LRUKeys(lru) \ {e} : Rank(e) < Rank(o)]_vars

\* C38 witness: keys 1 and 2 were inserted, key 1 was hit, and the
\* insertion of key 3 evicted key 2.
C38_Witness ==
    /\ used = <<2, 1, 3>>
    /\ Len(lru) = 2
    /\ lru[1] = [key |-> 1, task |-> 1]
    /\ lru[2] = [key |-> 3, task |-> 3]

\* C35: an event creates the play_video task only if it is
\* onSubtitlesTrackChanged, short-form handling is enabled and the shorts
\* flag is set, and it clears the flag; the flag is set only by a
\* loungeScreenDisconnected event with reason
\* "disconnectedByUserScreenInitiated" while short-form handling is enabled.
\* So each such disconnect leads to at most one play command.
C35_OnePlayPerDisconnect ==
    [][/\ \A ev \in {"onVolumeChanged", "volumeChanged", "onAdStateChange",
                     "loungeScreenDisconnected", "onSubtitlesTrackChanged", "noop"} :
            \A data \in EventData(ev) :
               (OtherEvent(ev, data) /\ "play_video" \in lastCall'.tasks)
               => /\ ev = "onSubtitlesTrackChanged"
                  /\ config.handle_shorts
                  /\ shorts_disconnected
                  /\ ~shorts_disconnected'
       /\ (~shorts_disconnected /\ shorts_disconnected')
          => /\ config.handle_shorts
             /\ OtherEvent("loungeScreenDisconnected",
                           [reason |-> "disconnectedByUserScreenInitiated"])]_vars

\* C35 witness: the change of the subtitles track that followed a disconnect
\* by the screen created the play_video task and cleared the flag.
C35_Witness ==
    /\ lastCall.handler = "onSubtitlesTrackChanged"
    /\ "play_video" \in lastCall.tasks
    /\ ~shorts_disconnected
    /\ config.handle_shorts

\* C34: a watchdog poll cancels the subscription task only when at least
\* 60 s have passed since _process_event last processed an event; the stamp
\* is taken before the type of the event is looked at (lounge.py:180).
C34_NoCancelWithinThreshold ==
    [][\A w \in SubIds :
         (WdPoll(w) /\ subs' # subs) => now - lastEventAt >= WatchdogThreshold]_vars

\* C34 witness: the watchdog has asked the running subscription to cancel,
\* more than 60 s after the last processed event.
C34_Witness ==
    /\ subscribe_task # 0
    /\ subs[subscribe_task].cancelReq
    /\ subs[subscribe_task].by = "watchdog"
    /\ now - lastEventAt > WatchdogThreshold

\* C40: once DeviceManager.close has completed, the loop of the device
\* eventually terminates, whatever phase it was in; at the least it leaves
\* the refresh of the auth, the availability poll and the connect retry (a
\* loop that has gone on to subscribe_monitored ends when the subscription
\* it awaits ends).
C40_LoopEndsAfterClose ==
    []((cancelled /\ closePc = "idle")
       => <>(loopPc \in {"exited", "crashed", "subscribe", "in_sub"}))

\* C32: when the sleep of an armed skip is over and the report of the viewed
\* segments raises, the skip still goes on to seek_to: its task enters
\* _command (it holds or awaits the command mutex).
C32_SeekDespiteReportFailure ==
    [][\A t \in TaskIds :
         SkipMarked(t) => tasks'[t].pc \in {"sending", "lock_wait"}]_vars

\* C39: the scheduler issues a seek_to only for the most recent playback
\* update and only when that update is Playing: a skip task enters the send
\* of its command only while it is the main task and its update is Playing,
\* so after an update that is not Playing no pending skip goes on to seek and
\* the new task arms none.
C39_NoSeekUnlessPlaying ==
    [][\A t \in TaskIds :
         (tasks[t].kind = "skip" /\ tasks[t].pc # "sending"
            /\ tasks'[t].kind = "skip" /\ tasks'[t].pc = "sending")
         => (main_task = t /\ tasks[t].playing /\ ~tasks[t].stale)]_vars

\* C39 witness: an update that is not Playing arrived while a skip was
\* pending; that skip has ended cancelled, and the task of the update is
\* fetching the segments, the only skip task left.
C39_Witness ==
    /\ staleCancelled
    /\ main_task \in TaskIds
    /\ tasks[main_task].kind = "skip"
    /\ tasks[main_task].hasVideo
    /\ ~tasks[main_task].playing
    /\ tasks[main_task].pc = "fetch"
    /\ \A t \in TaskIds \ {main_task} : tasks[t].kind # "skip"

\* C33: the command mutex is held only while a command is being sent, so no
\* exit from _command leaves it held; and a task waiting for the mutex does
\* not wait for ever: it acquires the mutex (or is itself cancelled).
C33_MutexReleased ==
    /\ [](locked => InFlight # {})
    /\ \A t \in TaskIds :
         [](tasks[t].pc = "lock_wait" => <>(tasks[t].pc # "lock_wait"))

\* C33 witness: the holder of the mutex has left _command and released it,
\* and the command that waited behind it has been woken to take it.
C33_Witness ==
    /\ ~locked
    /\ InFlight = {}
    /\ Len(waiters) = 1
    /\ waiters[1].st = "woken"
    /\ tasks[waiters[1].t].pc = "lock_wait"
    /\ ~tasks[waiters[1].t].cancelReq

\* C37: the segment resolution started by autoplayUpNext does not end with
\* an error of its own (it may fail only when the channel lookup fails), and
\* once it has ended, a playback update asking for the segments of the same
\* video gets that result: its call makes no new get_segments task.
C37_PrefetchServesPlayback ==
    /\ [](\A k \in Keys : prefetch[k] # "attr_error")
    /\ [][\A k \in Keys :
            (prefetch[k] \in PrefetchEnded /\ CallSegments(k)) => comps' = comps]_vars

\* C31: the task of the most recent playback update, when that update is
\* Playing and no further update arrives, does not end without its segments:
\* at the least its await of get_segments returns (it then arms the skip of
\* the next segment, or finds none), unless the resolution itself failed.
C31_LastPlayingUpdateArms ==
    \A t \in TaskIds :
        []((lastUpd = t /\ tasks[t].kind = "skip" /\ tasks[t].playing)
           => <>(lastUpd # t \/ fetchOf[t].end \in {"armed", "nothing", "error"}))

====
